---- MODULE Spec2Model ----
(***************************************************************************)
(* Media pipeline of the short-video platform:                             *)
(*   generateThumbnail  (thumbnail extractor, src/unnamed/part_000)        *)
(*   processVideoAudio  (audio compositor,   src/unnamed/part_001)         *)
(* Time is counted in seconds: setTimeout(.., 60000) is 60 units and       *)
(* setTimeout(.., 1000) is 1 unit.  A timer is a countdown; time advances  *)
(* only while no armed timer is due (a due timer fires first).             *)
(***************************************************************************)
EXTENDS Integers, Sequences, FiniteSets, TLC

\* ------------------------------------------------------------- constants
MAX_ATTEMPTS == 3
LOAD_TIMEOUT == 60
RETRY_BACKOFF == 1

\* ---------------------------------------------------------------- bounds
MaxDim == 2
MaxSeeked == 2
MaxResize == 1

NoTimer == -1
Dims == 0..MaxDim
Attempt == 1..MAX_ATTEMPTS

VARIABLES
    \* generateThumbnail
    pc,            \* position of the async executor
    waitRes,       \* state of the promise of waitForVideoLoad
    loadTimer,     \* countdown of the 60 s timer, NoTimer when not armed
    waited,        \* time spent so far in a pending waitForVideoLoad, kept when
                   \* the timer ends the wait, 0 once a notification ended it
    onseekedSet,   \* video.onseeked has been assigned
    attempts,      \* let attempts
    encode,        \* per attempt: the canvas.toBlob request of that attempt
    backoff,       \* per attempt: countdown of its setTimeout(tryCapture, 1000)
    outcome,       \* the promise returned to the caller
    revoked,       \* number of URL.revokeObjectURL(videoUrl) calls
    removed,       \* number of video.remove() calls
    videoWidth, videoHeight,
    loadedDelivered, errorDelivered,
    seeked, resizes,
    \* history of the capture step
    rasters,       \* rasterizations started
    thrown,        \* rasterizations that threw
    exhaustedCalls,\* calls of tryCapture that found attempts >= MAX_ATTEMPTS
    lateRaster,    \* a rasterization started after the release
    lateBlob,      \* an image arrived after the promise had been rejected
    \* processVideoAudio
    aphase,        \* position of processVideoAudio
    audioTrack,    \* audioTrack is not null
    videoVolume, audioVolume,
    videoBuf,      \* videoAudioBuffer, <<>> before it is decoded
    videoRate,     \* videoAudioBuffer.sampleRate, 0 before it is decoded
    outputRate,    \* outputBuffer.sampleRate, 0 before it is created
    audioBuf,      \* audioTrackBuffer, <<>> before it is decoded
    outputBuffer,  \* outputBuffer
    primaryOut,    \* outputBuffer as the first loop (lines 52-61) left it
    handed,        \* the buffer passed to audioBufferToWav, <<>> before
    secondaryFailed, \* the catch of lines 92-95 ran
    restored,      \* the restoration loop of lines 119-125 ran
    aresult,       \* the promise processVideoAudio returns
    ctxCreated,    \* new AudioContext() was executed
    ctxClosed,     \* number of audioContext.close() calls
    urlCreated,    \* URL.createObjectURL(videoBlob) was executed
    urlRevoked,    \* number of URL.revokeObjectURL calls
    elemRemoved,   \* number of videoElement.remove() calls
    fetches,       \* number of fetch(audioTrack.audio_url) calls
    processedBlob, \* processedBlob of line 142, NoBlob before
    \* audioBufferToWav
    wpc,           \* "idle": not called, "called": the argument is bound,
                   \* "returned": the blob is built
    wavBuffer,     \* buffer: one sequence of samples per channel
    wavRate,       \* buffer.sampleRate
    wavBytes,      \* the bytes of arrayBuffer, <<>> before it is built
    \* useVideoStore (src/src/store/videoStore.ts)
    videos,        \* state.videos, by video id
    feedType,      \* state.feedType
    hasMore,       \* state.hasMore
    loading,       \* state.loading
    error,         \* state.error, "none" for null
    fcalls,        \* the calls of fetchVideos, in the order they were made
    switches,      \* number of setFeedType calls so far
    stale,         \* a list captured before a feed switch was put back after it
    uploadProgress,\* state.uploadProgress
    isUploading,   \* state.isUploading
    uploadError,   \* state.uploadError, "none" for null
    ucalls,        \* the calls of uploadVideo, in the order they were made
    \* video store: marcarVideoVisto, likeVideo
    currentVideo,  \* state.currentVideo, id 0 for null
    views_count,   \* per id: views_count of the entries of state.videos
    likes_count,   \* per id: likes_count of the entries of state.videos
    viewRows,      \* table video_views: the videos with a row of the user
    vcalls,        \* the calls of marcarVideoVisto, in the order they were made
    likeRows,      \* table likes: per video the id of the user's row, 0 for none
    rowIds,        \* ids given out so far to rows of table likes
    otherLikes,    \* table likes: per video the other users with a row
    lcalls         \* the calls of likeVideo, in the order they were made

tvars == <<pc, waitRes, loadTimer, waited, onseekedSet, attempts, encode, backoff,
           outcome, revoked, removed, videoWidth, videoHeight, loadedDelivered,
           errorDelivered, seeked, resizes, rasters, thrown, exhaustedCalls,
           lateRaster, lateBlob>>

avars == <<aphase, audioTrack, videoVolume, audioVolume, videoBuf, videoRate,
           outputRate, audioBuf,
           outputBuffer, primaryOut, handed, secondaryFailed, restored, aresult,
           ctxCreated, ctxClosed, urlCreated, urlRevoked, elemRemoved, fetches,
           processedBlob>>

wvars == <<wpc, wavBuffer, wavRate, wavBytes>>

svars == <<videos, feedType, hasMore, loading, error, fcalls, switches, stale,
           uploadProgress, isUploading, uploadError, ucalls>>

cvars == <<currentVideo, views_count, likes_count, viewRows, vcalls, likeRows,
           rowIds, otherLikes, lcalls>>

vars == <<tvars, avars, wvars, svars, cvars>>

\* ------------------------------------------------------------- files
\* A File or Blob by what its bytes are made of: the bytes of the input
\* videoBlob, and the audio buffer a WAV file was serialized from.
NoBlob == [name |-> "", video |-> FALSE, audio |-> <<>>]

\* line 139: new File([videoBlob], 'video.webm')
VideoFile == [name |-> "video.webm", video |-> TRUE, audio |-> <<>>]

\* line 140: new File([processedAudioBlob], 'audio.wav')
AudioFile(buffer) == [name |-> "audio.wav", video |-> FALSE, audio |-> buffer]

CombineVideoAndAudioMuxes(videoFile, audioFile, options) ==
    [videoBlob |-> [name |-> videoFile.name, video |-> videoFile.video,
                    audio |-> audioFile.audio],
     thumbnailBlob |-> NoBlob]

\* lines 244-257: return { videoBlob: videoFile, thumbnailBlob: new Blob() }
CombineVideoAndAudio(videoFile, audioFile, options) ==
    [videoBlob |-> videoFile, thumbnailBlob |-> NoBlob]

\* ------------------------------------------------------ promise semantics
Pending == [st |-> "pending", err |-> "none", w |-> 0, h |-> 0,
            srcW |-> 0, srcH |-> 0, at |-> 0]

ResolveOverwrites(o, e, at) ==
    [st |-> "resolved", err |-> "none", w |-> e.w, h |-> e.h,
     srcW |-> e.srcW, srcH |-> e.srcH, at |-> at]

\* resolve(blob): only the first settlement of a promise takes effect
Resolve(o, e, at) ==
    IF o.st = "pending"
    THEN [st |-> "resolved", err |-> "none", w |-> e.w, h |-> e.h,
          srcW |-> e.srcW, srcH |-> e.srcH, at |-> at]
    ELSE o

\* reject(error): only the first settlement of a promise takes effect
Reject(o, kind, e, at) ==
    IF o.st = "pending"
    THEN [st |-> "rejected", err |-> kind, w |-> e.w, h |-> e.h,
          srcW |-> e.srcW, srcH |-> e.srcH, at |-> at]
    ELSE o

NoEncode == [st |-> "none", w |-> 0, h |-> 0, srcW |-> 0, srcH |-> 0]

CanvasSizeSwapped(vw, vh) == [w |-> vh, h |-> vw]

\* canvas.width = video.videoWidth; canvas.height = video.videoHeight
CanvasSize(vw, vh) == [w |-> vw, h |-> vh]

\* audioBufferToWav has not been called
WavIdle ==
    /\ wpc = "idle"
    /\ wavBuffer = <<>>
    /\ wavRate = 0
    /\ wavBytes = <<>>

\* the store as create() builds it (lines 97-105), no call made
StoreIdle ==
    /\ videos = <<>>
    /\ feedType = "all"
    /\ hasMore = TRUE
    /\ loading = FALSE
    /\ error = "none"
    /\ fcalls = <<>>
    /\ switches = 0
    /\ stale = FALSE
    /\ uploadProgress = 0
    /\ isUploading = FALSE
    /\ uploadError = "none"
    /\ ucalls = <<>>

\* the number of rows of table videos
RemoteVideos == 7

\* the ids of the rows of table videos
VideoIds == 1..RemoteVideos

\* currentVideo: null
NoVideo == [id |-> 0, views_count |-> 0, likes_count |-> 0]

\* lines 96-105 for currentVideo; no video listed, no call made, no row stored
CountsIdle ==
    /\ currentVideo = NoVideo
    /\ views_count = [v \in VideoIds |-> 0]
    /\ likes_count = [v \in VideoIds |-> 0]
    /\ viewRows = {}
    /\ vcalls = <<>>
    /\ likeRows = [v \in VideoIds |-> 0]
    /\ rowIds = 0
    /\ otherLikes = [v \in VideoIds |-> {}]
    /\ lcalls = <<>>

\* ------------------------------------------------------------------ Init
TInit ==
    /\ pc = "waiting"
    /\ waitRes = "pending"
    /\ loadTimer = LOAD_TIMEOUT
    /\ waited = 0
    /\ onseekedSet = FALSE
    /\ attempts = 0
    /\ encode = [a \in Attempt |-> NoEncode]
    /\ backoff = [a \in Attempt |-> NoTimer]
    /\ outcome = Pending
    /\ revoked = 0
    /\ removed = 0
    /\ videoWidth = 0
    /\ videoHeight = 0
    /\ loadedDelivered = FALSE
    /\ errorDelivered = FALSE
    /\ seeked = 0
    /\ resizes = 0
    /\ rasters = 0
    /\ thrown = 0
    /\ exhaustedCalls = 0
    /\ lateRaster = FALSE
    /\ lateBlob = FALSE
    \* processVideoAudio is not running
    /\ aphase = "Init"
    /\ audioTrack = FALSE
    /\ videoVolume = 0
    /\ audioVolume = 0
    /\ videoBuf = <<>>
    /\ videoRate = 0
    /\ outputRate = 0
    /\ audioBuf = <<>>
    /\ outputBuffer = <<>>
    /\ primaryOut = <<>>
    /\ handed = <<>>
    /\ secondaryFailed = FALSE
    /\ restored = FALSE
    /\ aresult = [st |-> "pending", err |-> "none"]
    /\ ctxCreated = FALSE
    /\ ctxClosed = 0
    /\ urlCreated = FALSE
    /\ urlRevoked = 0
    /\ elemRemoved = 0
    /\ fetches = 0
    /\ processedBlob = NoBlob
    /\ WavIdle
    /\ StoreIdle
    /\ CountsIdle

\* no synchronous code of the executor is running: tasks may be dispatched
Idle == pc \in {"waiting", "done"}

\* ------------------------------------------------------------ tryCapture
\* One call of tryCapture.  throws: the rasterization (getContext, drawImage,
\* toBlob) throws; timers: the backoff timers armed when the call starts.
TryCaptureOffByOne(throws, timers) ==
    IF attempts > MAX_ATTEMPTS
    THEN /\ outcome' = Reject(outcome, "Exhausted", NoEncode, attempts)
         /\ exhaustedCalls' = exhaustedCalls + 1
         /\ backoff' = timers
         /\ UNCHANGED <<attempts, encode, rasters, thrown, lateRaster>>
    ELSE /\ attempts' = attempts + 1
         /\ rasters' = rasters + 1
         /\ lateRaster' = (lateRaster \/ revoked > 0 \/ removed > 0)
         /\ UNCHANGED exhaustedCalls
         /\ IF throws
            THEN /\ thrown' = thrown + 1
                 /\ UNCHANGED encode
                 /\ IF attempts' < MAX_ATTEMPTS
                    THEN /\ backoff' = [timers EXCEPT ![attempts'] = RETRY_BACKOFF]
                         /\ UNCHANGED outcome
                    ELSE /\ backoff' = timers
                         /\ outcome' = Reject(outcome, "Raster", NoEncode, attempts')
            ELSE /\ encode' = [encode EXCEPT ![attempts'] =
                        [st |-> "pending",
                         w |-> CanvasSize(videoWidth, videoHeight).w,
                         h |-> CanvasSize(videoWidth, videoHeight).h,
                         srcW |-> videoWidth, srcH |-> videoHeight]]
                 /\ backoff' = timers
                 /\ UNCHANGED <<thrown, outcome>>

TryCapture(throws, timers) ==
    IF attempts >= MAX_ATTEMPTS
    THEN /\ outcome' = Reject(outcome, "Exhausted", NoEncode, attempts)
         /\ exhaustedCalls' = exhaustedCalls + 1
         /\ backoff' = timers
         /\ UNCHANGED <<attempts, encode, rasters, thrown, lateRaster>>
    ELSE /\ attempts' = attempts + 1
         /\ rasters' = rasters + 1
         /\ lateRaster' = (lateRaster \/ revoked > 0 \/ removed > 0)
         /\ UNCHANGED exhaustedCalls
         /\ IF throws
            THEN /\ thrown' = thrown + 1
                 /\ UNCHANGED encode
                 /\ IF attempts' < MAX_ATTEMPTS
                    THEN /\ backoff' = [timers EXCEPT ![attempts'] = RETRY_BACKOFF]
                         /\ UNCHANGED outcome
                    ELSE /\ backoff' = timers
                         /\ outcome' = Reject(outcome, "Raster", NoEncode, attempts')
            ELSE /\ encode' = [encode EXCEPT ![attempts'] =
                        [st |-> "pending",
                         w |-> CanvasSize(videoWidth, videoHeight).w,
                         h |-> CanvasSize(videoWidth, videoHeight).h,
                         srcW |-> videoWidth, srcH |-> videoHeight]]
                 /\ backoff' = timers
                 /\ UNCHANGED <<thrown, outcome>>

\* ---------------------------------------------------------- environment
\* the clock advances by one unit; a due timer fires before time moves on
Tick ==
    /\ UNCHANGED <<avars, wvars, svars, cvars>>
    /\ Idle
    /\ loadTimer # 0
    /\ \A a \in Attempt : backoff[a] # 0
    /\ loadTimer > 0 \/ \E a \in Attempt : backoff[a] > 0
    /\ loadTimer' = IF loadTimer > 0 THEN loadTimer - 1 ELSE loadTimer
    /\ waited' = IF waitRes = "pending" THEN waited + 1 ELSE waited
    /\ backoff' = [a \in Attempt |-> IF backoff[a] > 0 THEN backoff[a] - 1 ELSE backoff[a]]
    /\ UNCHANGED <<pc, waitRes, onseekedSet, attempts, encode, outcome, revoked,
                   removed, videoWidth, videoHeight, loadedDelivered, errorDelivered,
                   seeked, resizes, rasters, thrown, exhaustedCalls, lateRaster, lateBlob>>

\* the 60 s timer of waitForVideoLoad fires
LoadTimeout ==
    /\ UNCHANGED <<avars, wvars, svars, cvars>>
    /\ Idle
    /\ loadTimer = 0
    /\ loadTimer' = NoTimer
    /\ waitRes' = IF waitRes = "pending" THEN "timeout" ELSE waitRes
    /\ pc' = IF waitRes = "pending" THEN "catch" ELSE pc
    /\ UNCHANGED <<waited, onseekedSet, attempts, encode, backoff, outcome, revoked,
                   removed, videoWidth, videoHeight, loadedDelivered, errorDelivered,
                   seeked, resizes, rasters, thrown, exhaustedCalls, lateRaster, lateBlob>>

OnLoadedDataKeepsTimer ==
    /\ UNCHANGED <<avars, wvars, svars, cvars>>
    /\ Idle
    /\ ~loadedDelivered /\ ~errorDelivered
    /\ loadedDelivered' = TRUE
    /\ \E w \in Dims, h \in Dims :
         /\ (w = 0) = (h = 0)
         /\ videoWidth' = w
         /\ videoHeight' = h
    /\ loadTimer' = loadTimer
    /\ waitRes' = IF waitRes = "pending" THEN "loaded" ELSE waitRes
    /\ pc' = IF waitRes = "pending" THEN "resume" ELSE pc
    /\ waited' = IF waitRes = "pending" THEN 0 ELSE waited
    /\ UNCHANGED <<onseekedSet, attempts, encode, backoff, outcome, revoked,
                   removed, errorDelivered, seeked, resizes, rasters, thrown,
                   exhaustedCalls, lateRaster, lateBlob>>

\* video.onloadeddata
OnLoadedData ==
    /\ UNCHANGED <<avars, wvars, svars, cvars>>
    /\ Idle
    /\ ~loadedDelivered /\ ~errorDelivered
    /\ loadedDelivered' = TRUE
    /\ \E w \in Dims, h \in Dims :
         /\ (w = 0) = (h = 0)
         /\ videoWidth' = w
         /\ videoHeight' = h
    /\ loadTimer' = NoTimer
    /\ waitRes' = IF waitRes = "pending" THEN "loaded" ELSE waitRes
    /\ pc' = IF waitRes = "pending" THEN "resume" ELSE pc
    /\ waited' = IF waitRes = "pending" THEN 0 ELSE waited
    /\ UNCHANGED <<onseekedSet, attempts, encode, backoff, outcome, revoked,
                   removed, errorDelivered, seeked, resizes, rasters, thrown,
                   exhaustedCalls, lateRaster, lateBlob>>

\* video.onerror
OnError ==
    /\ UNCHANGED <<avars, wvars, svars, cvars>>
    /\ Idle
    /\ ~errorDelivered
    /\ errorDelivered' = TRUE
    /\ loadTimer' = NoTimer
    /\ waitRes' = IF waitRes = "pending" THEN "error" ELSE waitRes
    /\ pc' = IF waitRes = "pending" THEN "catch" ELSE pc
    /\ waited' = IF waitRes = "pending" THEN 0 ELSE waited
    /\ UNCHANGED <<onseekedSet, attempts, encode, backoff, outcome, revoked,
                   removed, videoWidth, videoHeight, loadedDelivered, seeked, resizes,
                   rasters, thrown, exhaustedCalls, lateRaster, lateBlob>>

\* the decoder reports new natural dimensions
Resize ==
    /\ UNCHANGED <<avars, wvars, svars, cvars>>
    /\ Idle
    /\ loadedDelivered
    /\ resizes < MaxResize
    /\ resizes' = resizes + 1
    /\ \E w \in Dims, h \in Dims :
         /\ (w = 0) = (h = 0)
         /\ <<w, h>> # <<videoWidth, videoHeight>>
         /\ videoWidth' = w
         /\ videoHeight' = h
    /\ UNCHANGED <<pc, waitRes, loadTimer, waited, onseekedSet, attempts, encode,
                   backoff, outcome, revoked, removed, loadedDelivered, errorDelivered,
                   seeked, rasters, thrown, exhaustedCalls, lateRaster, lateBlob>>

\* ------------------------------------------------------------- executor
\* after await waitForVideoLoad(): assign onseeked, call tryCapture()
Resume ==
    /\ UNCHANGED <<avars, wvars, svars, cvars>>
    /\ pc = "resume"
    /\ onseekedSet' = TRUE
    /\ \E throws \in BOOLEAN :
         TryCapture(throws, backoff)
    /\ pc' = "finally"
    /\ UNCHANGED <<waitRes, loadTimer, waited, revoked, removed, videoWidth,
                   videoHeight, loadedDelivered, errorDelivered, seeked, resizes, lateBlob>>

CatchSkipsFinally ==
    /\ UNCHANGED <<avars, wvars, svars, cvars>>
    /\ pc = "catch"
    /\ outcome' = Reject(outcome, IF waitRes = "timeout" THEN "Timeout" ELSE "Decode",
                         NoEncode, attempts)
    /\ pc' = "done"
    /\ UNCHANGED <<waitRes, loadTimer, waited, onseekedSet, attempts, encode, backoff,
                   revoked, removed, videoWidth, videoHeight, loadedDelivered,
                   errorDelivered, seeked, resizes, rasters, thrown, exhaustedCalls,
                   lateRaster, lateBlob>>

\* catch (error) { reject(error) }
Catch ==
    /\ UNCHANGED <<avars, wvars, svars, cvars>>
    /\ pc = "catch"
    /\ outcome' = Reject(outcome, IF waitRes = "timeout" THEN "Timeout" ELSE "Decode",
                         NoEncode, attempts)
    /\ pc' = "finally"
    /\ UNCHANGED <<waitRes, loadTimer, waited, onseekedSet, attempts, encode, backoff,
                   revoked, removed, videoWidth, videoHeight, loadedDelivered,
                   errorDelivered, seeked, resizes, rasters, thrown, exhaustedCalls,
                   lateRaster, lateBlob>>

FinallyLeaksUrl ==
    /\ UNCHANGED <<avars, wvars, svars, cvars>>
    /\ pc = "finally"
    /\ revoked' = revoked
    /\ removed' = removed + 1
    /\ pc' = "done"
    /\ UNCHANGED <<waitRes, loadTimer, waited, onseekedSet, attempts, encode, backoff,
                   outcome, videoWidth, videoHeight, loadedDelivered, errorDelivered,
                   seeked, resizes, rasters, thrown, exhaustedCalls, lateRaster, lateBlob>>

\* finally { URL.revokeObjectURL(videoUrl); video.remove() }
Finally ==
    /\ UNCHANGED <<avars, wvars, svars, cvars>>
    /\ pc = "finally"
    /\ revoked' = revoked + 1
    /\ removed' = removed + 1
    /\ pc' = "done"
    /\ UNCHANGED <<waitRes, loadTimer, waited, onseekedSet, attempts, encode, backoff,
                   outcome, videoWidth, videoHeight, loadedDelivered, errorDelivered,
                   seeked, resizes, rasters, thrown, exhaustedCalls, lateRaster, lateBlob>>

\* video.onseeked = () => tryCapture()
OnSeeked ==
    /\ UNCHANGED <<avars, wvars, svars, cvars>>
    /\ Idle
    /\ onseekedSet
    /\ seeked < MaxSeeked
    /\ seeked' = seeked + 1
    /\ \E throws \in BOOLEAN :
         TryCapture(throws, backoff)
    /\ UNCHANGED <<pc, waitRes, loadTimer, waited, onseekedSet, revoked, removed,
                   videoWidth, videoHeight, loadedDelivered, errorDelivered, resizes,
                   lateBlob>>

\* setTimeout(tryCapture, 1000) armed by attempt a fires
RetryTimer(a) ==
    /\ UNCHANGED <<avars, wvars, svars, cvars>>
    /\ Idle
    /\ backoff[a] = 0
    /\ \E throws \in BOOLEAN :
         TryCapture(throws, [backoff EXCEPT ![a] = NoTimer])
    /\ UNCHANGED <<pc, waitRes, loadTimer, waited, onseekedSet, revoked, removed,
                   videoWidth, videoHeight, loadedDelivered, errorDelivered, seeked,
                   resizes, lateBlob>>

ToBlobCallbackIgnoresNull(a) ==
    /\ UNCHANGED <<avars, wvars, svars, cvars>>
    /\ Idle
    /\ encode[a].st = "pending"
    /\ encode' = [encode EXCEPT ![a].st = "done"]
    /\ \E blob \in BOOLEAN :
         /\ (encode[a].w = 0 \/ encode[a].h = 0) => ~blob
         /\ outcome' = IF blob THEN Resolve(outcome, encode[a], attempts)
                       ELSE outcome
         /\ lateBlob' = (lateBlob \/ (blob /\ outcome.st = "rejected"))
    /\ UNCHANGED <<pc, waitRes, loadTimer, waited, onseekedSet, attempts, backoff,
                   revoked, removed, videoWidth, videoHeight, loadedDelivered,
                   errorDelivered, seeked, resizes, rasters, thrown, exhaustedCalls,
                   lateRaster>>

\* the callback of canvas.toBlob of attempt a; a surface without pixels gives null
ToBlobCallback(a) ==
    /\ UNCHANGED <<avars, wvars, svars, cvars>>
    /\ Idle
    /\ encode[a].st = "pending"
    /\ encode' = [encode EXCEPT ![a].st = "done"]
    /\ \E blob \in BOOLEAN :
         /\ (encode[a].w = 0 \/ encode[a].h = 0) => ~blob
         /\ outcome' = IF blob THEN Resolve(outcome, encode[a], attempts)
                       ELSE Reject(outcome, "BlobNull", encode[a], attempts)
         /\ lateBlob' = (lateBlob \/ (blob /\ outcome.st = "rejected"))
    /\ UNCHANGED <<pc, waitRes, loadTimer, waited, onseekedSet, attempts, backoff,
                   revoked, removed, videoWidth, videoHeight, loadedDelivered,
                   errorDelivered, seeked, resizes, rasters, thrown, exhaustedCalls,
                   lateRaster>>

\* ===================================================== processVideoAudio
\* Samples and volumes are exact fractions (rounding to 32-bit floats is left
\* out): a sample s stands for s / One, a volume v for v / VOne, and a sample
\* of outputBuffer o for o / OutOne, with OutOne = One * VOne * 10 so that
\* the factor 0.8 = 8 / 10 stays exact.
One == 10000
VOne == 2
OutOne == One * VOne * 10

MaxLen == 2
SampleRates == {44100, 48000}
Channels == {1, 2}
Volumes == {-1, 0, 1, 2, 4}
VideoSamples == {-One, 1, One}
AudioAmplitudes == {-One, One}

Min(a, b) == IF a < b THEN a ELSE b
Max(a, b) == IF a > b THEN a ELSE b
Abs(a) == IF a < 0 THEN -a ELSE a

\* decoded buffers: one tuple of samples per channel, all of the same length
VideoBuffers ==
    UNION {[1..c -> [1..n -> VideoSamples]] : c \in Channels, n \in 1..MaxLen}

\* secondary tracks: per channel a tone of alternating sign, shorter than,
\* as long as, or longer than the video
AudioBuffers ==
    UNION {{[c \in 1..ch |-> [i \in 1..n |-> IF i % 2 = 1 THEN amp[c] ELSE -amp[c]]] :
              amp \in [1..ch -> AudioAmplitudes]} :
           ch \in Channels, n \in 1..(MaxLen + 1)}

NumberOfChannels(buf) == Len(buf)
Length(buf) == Len(buf[1])

\* Math.max(0, Math.min(1, volume))
NormalizedVolume(v) == Max(0, Min(VOne, v))

\* audioContext.createBuffer(channels, length, sampleRate): zero-filled
CreateBuffer(like) ==
    [c \in 1..NumberOfChannels(like) |-> [i \in 1..Length(like) |-> 0]]

PrimaryPassFirstChannel(video, vv) ==
    [c \in 1..NumberOfChannels(video) |->
        [i \in 1..Length(video) |-> video[1][i] * NormalizedVolume(vv) * 10]]

\* lines 52-61: outputData[i] = videoData[i] * normalizedVideoVolume
PrimaryPass(video, vv) ==
    [c \in 1..NumberOfChannels(video) |->
        [i \in 1..Length(video) |-> video[c][i] * NormalizedVolume(vv) * 10]]

SecondaryPassUnclipped(out, video, audio, av) ==
    LET audioLength == Min(Length(audio), Length(video))
        normalizedAudioVolume == NormalizedVolume(av) * 8
    IN  [c \in 1..NumberOfChannels(out) |->
          [i \in 1..Length(out) |->
             IF i <= audioLength
             THEN LET audioData == audio[((c - 1) % NumberOfChannels(audio)) + 1]
                  IN  out[c][i] + audioData[i] * normalizedAudioVolume
             ELSE out[c][i]]]

SecondaryPassLoopsTrack(out, video, audio, av) ==
    LET normalizedAudioVolume == NormalizedVolume(av) * 8
    IN  [c \in 1..NumberOfChannels(out) |->
          [i \in 1..Length(out) |->
             LET audioData == audio[((c - 1) % NumberOfChannels(audio)) + 1]
                 mixed == out[c][i]
                          + audioData[((i - 1) % Length(audio)) + 1] * normalizedAudioVolume
             IN  Max(-OutOne, Min(OutOne, mixed))]]

SecondaryPassSkipsExtraChannels(out, video, audio, av) ==
    LET audioLength == Min(Length(audio), Length(video))
        normalizedAudioVolume == NormalizedVolume(av) * 8
    IN  [c \in 1..NumberOfChannels(out) |->
          [i \in 1..Length(out) |->
             IF i <= audioLength /\ c <= NumberOfChannels(audio)
             THEN LET mixed == out[c][i] + audio[c][i] * normalizedAudioVolume
                  IN  Max(-OutOne, Min(OutOne, mixed))
             ELSE out[c][i]]]

\* lines 76-91: mix the track into the output, clipped to [-1, 1]
SecondaryPass(out, video, audio, av) ==
    LET audioLength == Min(Length(audio), Length(video))
        normalizedAudioVolume == NormalizedVolume(av) * 8
    IN  [c \in 1..NumberOfChannels(out) |->
          [i \in 1..Length(out) |->
             IF i <= audioLength
             THEN LET audioData == audio[((c - 1) % NumberOfChannels(audio)) + 1]
                      mixed == out[c][i] + audioData[i] * normalizedAudioVolume
                  IN  Max(-OutOne, Min(OutOne, mixed))
             ELSE out[c][i]]]

\* lines 104-114: some sample has a magnitude above 0.001
HasAudio(out) ==
    \E c \in 1..NumberOfChannels(out) : \E i \in 1..Length(out) :
        Abs(out[c][i]) * 1000 > OutOne

RestoreVideoUnscaled(video, vv) ==
    [c \in 1..NumberOfChannels(video) |->
        [i \in 1..Length(video) |-> video[c][i] * VOne * 10]]

\* lines 119-125: outputData[i] = videoData[i] * videoVolume
RestoreVideo(video, vv) ==
    [c \in 1..NumberOfChannels(video) |->
        [i \in 1..Length(video) |-> video[c][i] * vv * 10]]

RestoresWhenSilent(out, vv) == ~HasAudio(out)

\* line 116: if (!hasAudio && videoVolume > 0)
Restores(out, vv) == ~HasAudio(out) /\ vv > 0

\* lines 116-126: the output after the check of the mix
Validated(out, video, vv) ==
    IF Restores(out, vv) THEN RestoreVideo(video, vv) ELSE out

\* a call processVideoAudio(videoBlob, audioTrack, videoVolume, audioVolume)
AInit ==
    /\ aphase = "Init"
    /\ audioTrack \in BOOLEAN
    /\ videoVolume \in Volumes
    /\ audioVolume \in Volumes
    /\ videoBuf = <<>>
    /\ videoRate = 0
    /\ outputRate = 0
    /\ audioBuf = <<>>
    /\ outputBuffer = <<>>
    /\ primaryOut = <<>>
    /\ handed = <<>>
    /\ secondaryFailed = FALSE
    /\ restored = FALSE
    /\ aresult = [st |-> "pending", err |-> "none"]
    /\ ctxCreated = FALSE
    /\ ctxClosed = 0
    /\ urlCreated = FALSE
    /\ urlRevoked = 0
    /\ elemRemoved = 0
    /\ fetches = 0
    /\ processedBlob = NoBlob
    \* generateThumbnail is not running
    /\ pc = "waiting"
    /\ waitRes = "pending"
    /\ loadTimer = LOAD_TIMEOUT
    /\ waited = 0
    /\ onseekedSet = FALSE
    /\ attempts = 0
    /\ encode = [a \in Attempt |-> NoEncode]
    /\ backoff = [a \in Attempt |-> NoTimer]
    /\ outcome = Pending
    /\ revoked = 0
    /\ removed = 0
    /\ videoWidth = 0
    /\ videoHeight = 0
    /\ loadedDelivered = FALSE
    /\ errorDelivered = FALSE
    /\ seeked = 0
    /\ resizes = 0
    /\ rasters = 0
    /\ thrown = 0
    /\ exhaustedCalls = 0
    /\ lateRaster = FALSE
    /\ lateBlob = FALSE
    /\ WavIdle
    /\ StoreIdle
    /\ CountsIdle

\* lines 22-31: create the video element, set its src to a new object URL
AStart ==
    /\ aphase = "Init"
    /\ aphase' = "DecodingVideoMetadata"
    /\ urlCreated' = TRUE
    /\ UNCHANGED <<processedBlob, audioTrack, videoVolume, audioVolume, videoBuf, videoRate, outputRate,
                   audioBuf,
                   outputBuffer, primaryOut, handed, secondaryFailed, restored,
                   aresult, ctxCreated, ctxClosed, urlRevoked, elemRemoved, fetches>>
    /\ UNCHANGED <<tvars, wvars, svars, cvars>>

\* videoElement.onloadedmetadata, then lines 34-36 up to decodeAudioData
AOnLoadedMetadata ==
    /\ aphase = "DecodingVideoMetadata"
    /\ aphase' = "DecodingVideoAudio"
    /\ ctxCreated' = TRUE
    /\ UNCHANGED <<processedBlob, audioTrack, videoVolume, audioVolume, videoBuf, videoRate, outputRate,
                   audioBuf,
                   outputBuffer, primaryOut, handed, secondaryFailed, restored,
                   aresult, ctxClosed, urlCreated, urlRevoked, elemRemoved, fetches>>
    /\ UNCHANGED <<tvars, wvars, svars, cvars>>

\* videoElement.onerror
AOnVideoError ==
    /\ aphase = "DecodingVideoMetadata"
    /\ aphase' = "Catch"
    /\ aresult' = [aresult EXCEPT !.err = "VideoLoad"]
    /\ UNCHANGED <<processedBlob, audioTrack, videoVolume, audioVolume, videoBuf, videoRate, outputRate,
                   audioBuf,
                   outputBuffer, primaryOut, handed, secondaryFailed, restored,
                   ctxCreated, ctxClosed, urlCreated, urlRevoked, elemRemoved, fetches>>
    /\ UNCHANGED <<tvars, wvars, svars, cvars>>

\* videoAudioBuffer.sampleRate: the decoded inputs pair the one-channel
\* buffers with 44.1 kHz and the others with 48 kHz
DecodedRate(buf) == IF NumberOfChannels(buf) = 1 THEN 44100 ELSE 48000

\* audioContext.decodeAudioData(videoArrayBuffer) settles; lines 39-43
ADecodeVideoAudio ==
    /\ aphase = "DecodingVideoAudio"
    /\ \/ \E buf \in VideoBuffers :
            /\ videoBuf' = buf
            /\ videoRate' = DecodedRate(buf)
            /\ outputRate' = videoRate'
            /\ outputBuffer' = CreateBuffer(buf)
            /\ aphase' = "MixingPrimary"
            /\ UNCHANGED aresult
       \/ /\ aphase' = "Catch"
          /\ aresult' = [aresult EXCEPT !.err = "Decode"]
          /\ UNCHANGED <<videoBuf, videoRate, outputRate, outputBuffer>>
    /\ UNCHANGED <<processedBlob, audioTrack, videoVolume, audioVolume, audioBuf, primaryOut,
                   handed, secondaryFailed, restored, ctxCreated, ctxClosed,
                   urlCreated, urlRevoked, elemRemoved, fetches>>
    /\ UNCHANGED <<tvars, wvars, svars, cvars>>

AMixPrimaryDeferred ==
    /\ aphase = "MixingPrimary"
    /\ IF audioTrack /\ audioVolume > 0
       THEN /\ aphase' = "MixingSecondary:fetch"
            /\ fetches' = fetches + 1
            /\ UNCHANGED outputBuffer
       ELSE /\ aphase' = "ValidatingMix"
            /\ outputBuffer' = PrimaryPass(videoBuf, videoVolume)
            /\ UNCHANGED fetches
    /\ primaryOut' = PrimaryPass(videoBuf, videoVolume)
    /\ UNCHANGED <<processedBlob, audioTrack, videoVolume, audioVolume, videoBuf, videoRate, outputRate,
                   audioBuf,
                   handed, secondaryFailed, restored, aresult, ctxCreated,
                   ctxClosed, urlCreated, urlRevoked, elemRemoved>>
    /\ UNCHANGED <<tvars, wvars, svars, cvars>>

AMixPrimaryIgnoresVolume ==
    /\ aphase = "MixingPrimary"
    /\ outputBuffer' = PrimaryPass(videoBuf, videoVolume)
    /\ primaryOut' = outputBuffer'
    /\ IF audioTrack
       THEN /\ aphase' = "MixingSecondary:fetch"
            /\ fetches' = fetches + 1
       ELSE /\ aphase' = "ValidatingMix"
            /\ UNCHANGED fetches
    /\ UNCHANGED <<processedBlob, audioTrack, videoVolume, audioVolume, videoBuf, videoRate, outputRate,
                   audioBuf,
                   handed, secondaryFailed, restored, aresult, ctxCreated,
                   ctxClosed, urlCreated, urlRevoked, elemRemoved>>
    /\ UNCHANGED <<tvars, wvars, svars, cvars>>

\* lines 52-71: the first loop, then the branch on the track; fetch starts
AMixPrimary ==
    /\ aphase = "MixingPrimary"
    /\ outputBuffer' = PrimaryPass(videoBuf, videoVolume)
    /\ primaryOut' = outputBuffer'
    /\ IF audioTrack /\ audioVolume > 0
       THEN /\ aphase' = "MixingSecondary:fetch"
            /\ fetches' = fetches + 1
       ELSE /\ aphase' = "ValidatingMix"
            /\ UNCHANGED fetches
    /\ UNCHANGED <<processedBlob, audioTrack, videoVolume, audioVolume, videoBuf, videoRate, outputRate,
                   audioBuf,
                   handed, secondaryFailed, restored, aresult, ctxCreated,
                   ctxClosed, urlCreated, urlRevoked, elemRemoved>>
    /\ UNCHANGED <<tvars, wvars, svars, cvars>>

AFetchSecondaryFatal ==
    /\ aphase = "MixingSecondary:fetch"
    /\ \/ /\ aphase' = "MixingSecondary:decode"
          /\ UNCHANGED <<secondaryFailed, aresult>>
       \/ /\ aphase' = "Catch"
          /\ secondaryFailed' = TRUE
          /\ aresult' = [aresult EXCEPT !.err = "Decode"]
    /\ UNCHANGED <<processedBlob, audioTrack, videoVolume, audioVolume, videoBuf, videoRate, outputRate,
                   audioBuf,
                   outputBuffer, primaryOut, handed, restored, ctxCreated,
                   ctxClosed, urlCreated, urlRevoked, elemRemoved, fetches>>
    /\ UNCHANGED <<tvars, wvars, svars, cvars>>

\* lines 71-72: fetch and arrayBuffer settle; a failure is caught on line 92
AFetchSecondary ==
    /\ aphase = "MixingSecondary:fetch"
    /\ \/ /\ aphase' = "MixingSecondary:decode"
          /\ UNCHANGED secondaryFailed
       \/ /\ aphase' = "ValidatingMix"
          /\ secondaryFailed' = TRUE
    /\ UNCHANGED <<processedBlob, audioTrack, videoVolume, audioVolume, videoBuf, videoRate, outputRate,
                   audioBuf,
                   outputBuffer, primaryOut, handed, restored, aresult, ctxCreated,
                   ctxClosed, urlCreated, urlRevoked, elemRemoved, fetches>>
    /\ UNCHANGED <<tvars, wvars, svars, cvars>>

\* line 73: decodeAudioData of the track settles; lines 76-91 or the catch
ADecodeSecondary ==
    /\ aphase = "MixingSecondary:decode"
    /\ aphase' = "ValidatingMix"
    /\ \/ \E buf \in AudioBuffers :
            /\ audioBuf' = buf
            /\ outputBuffer' = SecondaryPass(outputBuffer, videoBuf, buf, audioVolume)
            /\ UNCHANGED secondaryFailed
       \/ /\ secondaryFailed' = TRUE
          /\ UNCHANGED <<audioBuf, outputBuffer>>
    /\ UNCHANGED <<processedBlob, audioTrack, videoVolume, audioVolume, videoBuf, videoRate, outputRate,
                   primaryOut,
                   handed, restored, aresult, ctxCreated, ctxClosed, urlCreated,
                   urlRevoked, elemRemoved, fetches>>
    /\ UNCHANGED <<tvars, wvars, svars, cvars>>

\* lines 104-129: check the mix, restore the video's audio, call audioBufferToWav
AValidateMix ==
    /\ aphase = "ValidatingMix"
    /\ outputBuffer' = Validated(outputBuffer, videoBuf, videoVolume)
    /\ restored' = Restores(outputBuffer, videoVolume)
    /\ handed' = outputBuffer'
    /\ aphase' = "Serializing"
    /\ UNCHANGED <<processedBlob, audioTrack, videoVolume, audioVolume, videoBuf, videoRate, outputRate,
                   audioBuf,
                   primaryOut, secondaryFailed, aresult, ctxCreated, ctxClosed,
                   urlCreated, urlRevoked, elemRemoved, fetches>>
    /\ UNCHANGED <<tvars, wvars, svars, cvars>>

\* line 129: audioBufferToWav returns the WAV blob, or its allocation throws
ASerialize ==
    /\ aphase = "Serializing"
    /\ \/ /\ aphase' = "Delegating"
          /\ UNCHANGED aresult
       \/ /\ aphase' = "Catch"
          /\ aresult' = [aresult EXCEPT !.err = "Serialize"]
    /\ UNCHANGED <<processedBlob, audioTrack, videoVolume, audioVolume, videoBuf, videoRate, outputRate,
                   audioBuf,
                   outputBuffer, primaryOut, handed, secondaryFailed, restored,
                   ctxCreated, ctxClosed, urlCreated, urlRevoked, elemRemoved, fetches>>
    /\ UNCHANGED <<tvars, wvars, svars, cvars>>

\* lines 139-163: combineVideoAndAudio returns the video file; return it
ADelegate ==
    /\ aphase = "Delegating"
    /\ aphase' = "FinallyReturn"
    /\ processedBlob' = CombineVideoAndAudio(VideoFile, AudioFile(handed),
                                            [videoVolume |-> videoVolume,
                                             audioVolume |-> audioVolume,
                                             isMuted |-> FALSE,
                                             isAudioMuted |-> FALSE]).videoBlob
    /\ UNCHANGED <<audioTrack, videoVolume, audioVolume, videoBuf, videoRate, outputRate,
                   audioBuf,
                   outputBuffer, primaryOut, handed, secondaryFailed, restored,
                   aresult, ctxCreated, ctxClosed, urlCreated, urlRevoked,
                   elemRemoved, fetches>>
    /\ UNCHANGED <<tvars, wvars, svars, cvars>>

\* lines 164-166: catch (error) { throw error }
ACatch ==
    /\ aphase = "Catch"
    /\ aphase' = "FinallyThrow"
    /\ UNCHANGED <<processedBlob, audioTrack, videoVolume, audioVolume, videoBuf, videoRate, outputRate,
                   audioBuf,
                   outputBuffer, primaryOut, handed, secondaryFailed, restored,
                   aresult, ctxCreated, ctxClosed, urlCreated, urlRevoked,
                   elemRemoved, fetches>>
    /\ UNCHANGED <<tvars, wvars, svars, cvars>>

AFinallyLeaksContext ==
    /\ aphase \in {"FinallyReturn", "FinallyThrow"}
    /\ ctxClosed' = ctxClosed
    /\ urlRevoked' = urlRevoked + 1
    /\ elemRemoved' = elemRemoved + 1
    /\ aresult' = [aresult EXCEPT !.st = IF aphase = "FinallyReturn"
                                         THEN "resolved" ELSE "rejected"]
    /\ aphase' = IF aphase = "FinallyReturn" THEN "Done" ELSE "Failed"
    /\ UNCHANGED <<processedBlob, audioTrack, videoVolume, audioVolume, videoBuf, videoRate, outputRate,
                   audioBuf,
                   outputBuffer, primaryOut, handed, secondaryFailed, restored,
                   ctxCreated, urlCreated, fetches>>
    /\ UNCHANGED <<tvars, wvars, svars, cvars>>

\* lines 167-175: the finally block, after which the promise settles
AFinally ==
    /\ aphase \in {"FinallyReturn", "FinallyThrow"}
    /\ ctxClosed' = IF ctxCreated THEN ctxClosed + 1 ELSE ctxClosed
    /\ urlRevoked' = urlRevoked + 1
    /\ elemRemoved' = elemRemoved + 1
    /\ aresult' = [aresult EXCEPT !.st = IF aphase = "FinallyReturn"
                                         THEN "resolved" ELSE "rejected"]
    /\ aphase' = IF aphase = "FinallyReturn" THEN "Done" ELSE "Failed"
    /\ UNCHANGED <<processedBlob, audioTrack, videoVolume, audioVolume, videoBuf, videoRate, outputRate,
                   audioBuf,
                   outputBuffer, primaryOut, handed, secondaryFailed, restored,
                   ctxCreated, urlCreated, fetches>>
    /\ UNCHANGED <<tvars, wvars, svars, cvars>>

ANext ==
    \/ AStart
    \/ AOnLoadedMetadata
    \/ AOnVideoError
    \/ ADecodeVideoAudio
    \/ AMixPrimary
    \/ AFetchSecondary
    \/ ADecodeSecondary
    \/ AValidateMix
    \/ ASerialize
    \/ ADelegate
    \/ ACatch
    \/ AFinally

SpecAudio == AInit /\ [][ANext]_vars

\* Scheduling of processVideoAudio: its own continuations run, and the
\* promises of decodeAudioData, fetch and arrayBuffer settle.  Nothing makes
\* the media element deliver loadedmetadata or error.
AFairness ==
    /\ WF_vars(AStart)
    /\ WF_vars(ADecodeVideoAudio)
    /\ WF_vars(AMixPrimary)
    /\ WF_vars(AFetchSecondary)
    /\ WF_vars(ADecodeSecondary)
    /\ WF_vars(AValidateMix)
    /\ WF_vars(ASerialize)
    /\ WF_vars(ADelegate)
    /\ WF_vars(ACatch)
    /\ WF_vars(AFinally)

SpecAudioFair == AInit /\ [][ANext]_vars /\ AFairness


TNext ==
    \/ Tick
    \/ LoadTimeout
    \/ OnLoadedData
    \/ OnError
    \/ Resize
    \/ Resume
    \/ Catch
    \/ Finally
    \/ OnSeeked
    \/ \E a \in Attempt : RetryTimer(a)
    \/ \E a \in Attempt : ToBlobCallback(a)

SpecThumb == TInit /\ [][TNext]_vars

\* Scheduling of generateThumbnail: time passes, armed timers fire, the
\* executor's continuations run and canvas.toBlob calls back.  Nothing makes
\* the media element deliver loadeddata, error, seeked or a size change.
TScheduled ==
    \/ Tick
    \/ LoadTimeout
    \/ Resume
    \/ Catch
    \/ Finally
    \/ \E a \in Attempt : RetryTimer(a)
    \/ \E a \in Attempt : ToBlobCallback(a)

\* as long as one of them can run, one of them eventually does
TFairness == WF_vars(TScheduled)

SpecThumbFair == TInit /\ [][TNext]_vars /\ TFairness

\* ------------------------------------------------- one call of either one
\* A behaviour is one invocation: of processVideoAudio with any arguments, or
\* of generateThumbnail (then no compositor call is set up).
ThumbNotStarted ==
    /\ pc = "waiting" /\ waitRes = "pending" /\ loadTimer = LOAD_TIMEOUT
    /\ ~loadedDelivered /\ ~errorDelivered

AudioNotStarted ==
    aphase = "Init" /\ ~audioTrack /\ videoVolume = 0 /\ audioVolume = 0

PNext ==
    \/ AudioNotStarted /\ TNext
    \/ ThumbNotStarted /\ ANext

SpecPipelines == AInit /\ [][PNext]_vars

\* ------------------------------------------------------ audioBufferToWav
\* A sample s of the buffer stands for s / WOne; the product of line 221 is
\* kept as its numerator over WOne.
WOne == 65536
MaxFrames == 2
WavSamples == {-98304, -WOne, -1, 0, 32769, WOne, 98304}

WavBuffers ==
    UNION {[1..c -> [1..n -> WavSamples]] : c \in Channels, n \in 0..MaxFrames}

\* 'RIFF', 'WAVE', 'fmt ', 'data' as their charCodeAt values
RIFF == <<82, 73, 70, 70>>
WAVE == <<87, 65, 86, 69>>
FMT == <<102, 109, 116, 32>>
DATA == <<100, 97, 116, 97>>

\* the bytes of view with `bytes` stored from byte offset `offset` (0-based)
Write(view, offset, bytes) ==
    [j \in 1..Len(view) |->
        IF j > offset /\ j <= offset + Len(bytes) THEN bytes[j - offset] ELSE view[j]]

\* function writeString: one setUint8 per character
WriteString(view, offset, string) == Write(view, offset, string)

\* view.setUint16(offset, value, true), view.setUint32(offset, value, true)
SetUint16(view, offset, value) ==
    Write(view, offset, <<value % 256, (value \div 256) % 256>>)

SetUint32(view, offset, value) ==
    Write(view, offset, <<value % 256, (value \div 256) % 256,
                          (value \div 65536) % 256, (value \div 16777216) % 256>>)

\* the integer part of num / WOne (ToNumber to integer: toward zero)
Truncate(num) ==
    IF num >= 0 \/ num % WOne = 0 THEN num \div WOne ELSE (num \div WOne) + 1

\* ToInt16: modulo 2^16, read as a signed 16-bit integer
ToInt16(k) ==
    LET m == k % 65536 IN IF m >= 32768 THEN m - 65536 ELSE m

\* view.setInt16(offset, num / WOne, true): two's complement, low byte first
SetInt16(view, offset, num) ==
    LET u == ToInt16(Truncate(num)) % 65536
    IN  Write(view, offset, <<u % 256, u \div 256>>)

\* line 220: Math.max(-1, Math.min(1, channelData[i][pos]))
ClampSample(x) == Max(-WOne, Min(WOne, x))

\* line 221: sample < 0 ? sample * 0x8000 : sample * 0x7FFF
Scaled(sample) == IF sample < 0 THEN sample * 32768 ELSE sample * 32767

SampleOffsetChannelMajor(offset, pos, i, blockAlign, bytesPerSample) ==
    offset + i * blockAlign + pos * bytesPerSample

\* line 222: offset + pos * blockAlign + i * bytesPerSample
SampleOffset(offset, pos, i, blockAlign, bytesPerSample) ==
    offset + pos * blockAlign + i * bytesPerSample

\* lines 219-223: the for loop over the channels of frame pos, from channel i
RECURSIVE WriteFrame(_, _, _, _, _, _)
WriteFrame(view, buffer, pos, i, blockAlign, bytesPerSample) ==
    IF i < Len(buffer)
    THEN LET sample == ClampSample(buffer[i + 1][pos + 1])
             value == Scaled(sample)
         IN  WriteFrame(SetInt16(view,
                                 SampleOffset(44, pos, i, blockAlign, bytesPerSample),
                                 value),
                        buffer, pos, i + 1, blockAlign, bytesPerSample)
    ELSE view

\* lines 217-225: while (pos < buffer.length)
RECURSIVE WriteSamples(_, _, _, _, _)
WriteSamples(view, buffer, pos, blockAlign, bytesPerSample) ==
    IF pos < Len(buffer[1])
    THEN WriteSamples(WriteFrame(view, buffer, pos, 0, blockAlign, bytesPerSample),
                      buffer, pos + 1, blockAlign, bytesPerSample)
    ELSE view

\* lines 179-227
AudioBufferToWav(buffer, sampleRate) ==
    LET numChannels == Len(buffer)
        format == 1
        bitDepth == 16
        bytesPerSample == bitDepth \div 8
        blockAlign == numChannels * bytesPerSample
        byteRate == sampleRate * blockAlign
        dataSize == Len(buffer[1]) * blockAlign
        headerSize == 44
        totalSize == headerSize + dataSize
        v0 == [j \in 1..totalSize |-> 0]
        v1 == WriteString(v0, 0, RIFF)
        v2 == SetUint32(v1, 4, totalSize - 8)
        v3 == WriteString(v2, 8, WAVE)
        v4 == WriteString(v3, 12, FMT)
        v5 == SetUint32(v4, 16, 16)
        v6 == SetUint16(v5, 20, format)
        v7 == SetUint16(v6, 22, numChannels)
        v8 == SetUint32(v7, 24, sampleRate)
        v9 == SetUint32(v8, 28, byteRate)
        v10 == SetUint16(v9, 32, blockAlign)
        v11 == SetUint16(v10, 34, bitDepth)
        v12 == WriteString(v11, 36, DATA)
        v13 == SetUint32(v12, 40, dataSize)
    IN  WriteSamples(v13, buffer, 0, blockAlign, bytesPerSample)

\* lines 220-222: the 16-bit integer stored for the sample s
Quantized(s) == ToInt16(Truncate(Scaled(ClampSample(s))))

\* the unsigned and signed little-endian integers found at a byte offset
ReadUint16(bytes, offset) == bytes[offset + 1] + 256 * bytes[offset + 2]

ReadUint32(bytes, offset) ==
    ReadUint16(bytes, offset) + 65536 * ReadUint16(bytes, offset + 2)

ReadInt16(bytes, offset) ==
    LET u == ReadUint16(bytes, offset) IN IF u >= 32768 THEN u - 65536 ELSE u

\* audioBufferToWav is called with a buffer; nothing else is running
WInit ==
    /\ wpc = "called"
    /\ wavBuffer \in WavBuffers
    /\ wavRate \in SampleRates
    /\ wavBytes = <<>>
    /\ pc = "waiting"
    /\ waitRes = "pending"
    /\ loadTimer = LOAD_TIMEOUT
    /\ waited = 0
    /\ onseekedSet = FALSE
    /\ attempts = 0
    /\ encode = [a \in Attempt |-> NoEncode]
    /\ backoff = [a \in Attempt |-> NoTimer]
    /\ outcome = Pending
    /\ revoked = 0
    /\ removed = 0
    /\ videoWidth = 0
    /\ videoHeight = 0
    /\ loadedDelivered = FALSE
    /\ errorDelivered = FALSE
    /\ seeked = 0
    /\ resizes = 0
    /\ rasters = 0
    /\ thrown = 0
    /\ exhaustedCalls = 0
    /\ lateRaster = FALSE
    /\ lateBlob = FALSE
    /\ aphase = "Init"
    /\ audioTrack = FALSE
    /\ videoVolume = 0
    /\ audioVolume = 0
    /\ videoBuf = <<>>
    /\ videoRate = 0
    /\ outputRate = 0
    /\ audioBuf = <<>>
    /\ outputBuffer = <<>>
    /\ primaryOut = <<>>
    /\ handed = <<>>
    /\ secondaryFailed = FALSE
    /\ restored = FALSE
    /\ aresult = [st |-> "pending", err |-> "none"]
    /\ ctxCreated = FALSE
    /\ ctxClosed = 0
    /\ urlCreated = FALSE
    /\ urlRevoked = 0
    /\ elemRemoved = 0
    /\ fetches = 0
    /\ processedBlob = NoBlob
    /\ StoreIdle
    /\ CountsIdle

\* line 227: return new Blob([arrayBuffer])
WReturn ==
    /\ wpc = "called"
    /\ wavBytes' = AudioBufferToWav(wavBuffer, wavRate)
    /\ wpc' = "returned"
    /\ UNCHANGED <<wavBuffer, wavRate>>
    /\ UNCHANGED <<tvars, avars, svars, cvars>>

WNext == WReturn

SpecWav == WInit /\ [][WNext]_vars

\* ======================================================== useVideoStore
\* generateThumbnail, processVideoAudio and audioBufferToWav are not running
MediaIdle ==
    /\ pc = "waiting"
    /\ waitRes = "pending"
    /\ loadTimer = LOAD_TIMEOUT
    /\ waited = 0
    /\ onseekedSet = FALSE
    /\ attempts = 0
    /\ encode = [a \in Attempt |-> NoEncode]
    /\ backoff = [a \in Attempt |-> NoTimer]
    /\ outcome = Pending
    /\ revoked = 0
    /\ removed = 0
    /\ videoWidth = 0
    /\ videoHeight = 0
    /\ loadedDelivered = FALSE
    /\ errorDelivered = FALSE
    /\ seeked = 0
    /\ resizes = 0
    /\ rasters = 0
    /\ thrown = 0
    /\ exhaustedCalls = 0
    /\ lateRaster = FALSE
    /\ lateBlob = FALSE
    /\ aphase = "Init"
    /\ audioTrack = FALSE
    /\ videoVolume = 0
    /\ audioVolume = 0
    /\ videoBuf = <<>>
    /\ videoRate = 0
    /\ outputRate = 0
    /\ audioBuf = <<>>
    /\ outputBuffer = <<>>
    /\ primaryOut = <<>>
    /\ handed = <<>>
    /\ secondaryFailed = FALSE
    /\ restored = FALSE
    /\ aresult = [st |-> "pending", err |-> "none"]
    /\ ctxCreated = FALSE
    /\ ctxClosed = 0
    /\ urlCreated = FALSE
    /\ urlRevoked = 0
    /\ elemRemoved = 0
    /\ fetches = 0
    /\ processedBlob = NoBlob
    /\ WavIdle

\* ----------------------------------------------- setFeedType, fetchVideos
PAGE_SIZE == 5
MaxPage == 1
MaxFetches == 3
MaxSwitches == 1
FeedTypes == {"all", "following", "foryou", "explore"}

\* the rows of table videos, newest first, by id
Remote == [k \in 1..RemoteVideos |-> k]

\* .order('created_at', { ascending: false }).range(from, to)
Range(from, to) == SubSeq(Remote, from + 1, Min(to + 1, Len(Remote)))

\* lines 166-167: const { videos, feedType } = get(); set({ loading: true,
\* error: null }); then the query is awaited
StartFetch(page, list) ==
    /\ fcalls' = Append(fcalls, [page |-> page, videos |-> list,
                                 epoch |-> switches', st |-> "pending"])
    /\ loading' = TRUE
    /\ error' = "none"

\* fetchVideos(page) is called
FetchVideos(page) ==
    /\ Len(fcalls) < MaxFetches
    /\ UNCHANGED switches
    /\ StartFetch(page, videos)
    /\ UNCHANGED <<videos, feedType, hasMore, stale>>
    /\ UNCHANGED <<uploadProgress, isUploading, uploadError, ucalls>>
    /\ UNCHANGED <<tvars, avars, wvars, cvars>>

\* lines 107-110: set({ feedType, videos: [], hasMore: true }); fetchVideos(0)
SetFeedType(type) ==
    /\ Len(fcalls) < MaxFetches
    /\ switches < MaxSwitches
    /\ switches' = switches + 1
    /\ feedType' = type
    /\ videos' = <<>>
    /\ hasMore' = TRUE
    /\ StartFetch(0, videos')
    /\ UNCHANGED stale
    /\ UNCHANGED <<uploadProgress, isUploading, uploadError, ucalls>>
    /\ UNCHANGED <<tvars, avars, wvars, cvars>>

\* lines 191-192: page === 0 ? transformedData : [...videos, ...transformedData]
NewVideos(page, list, transformedData) ==
    IF page = 0 THEN transformedData ELSE list \o transformedData

\* lines 169-216: the query of call i answers with rows
FetchResolved(i) ==
    /\ fcalls[i].st = "pending"
    /\ LET page == fcalls[i].page
           from == page * PAGE_SIZE
           to == from + PAGE_SIZE - 1
           videosData == Range(from, to)
       IN  /\ videos' = NewVideos(page, fcalls[i].videos, videosData)
           /\ hasMore' = (Len(videosData) = PAGE_SIZE)
           /\ stale' = (stale \/ (page > 0 /\ fcalls[i].epoch < switches
                                  /\ fcalls[i].videos # <<>>))
    /\ loading' = FALSE
    /\ fcalls' = [fcalls EXCEPT ![i].st = "done"]
    /\ UNCHANGED <<feedType, error, switches>>
    /\ UNCHANGED <<uploadProgress, isUploading, uploadError, ucalls>>
    /\ UNCHANGED <<tvars, avars, wvars, cvars>>

\* lines 186, 210-216: the query of call i answers with an error
FetchRejected(i) ==
    /\ fcalls[i].st = "pending"
    /\ error' = "fetch"
    /\ loading' = FALSE
    /\ fcalls' = [fcalls EXCEPT ![i].st = "done"]
    /\ UNCHANGED <<videos, feedType, hasMore, switches, stale>>
    /\ UNCHANGED <<uploadProgress, isUploading, uploadError, ucalls>>
    /\ UNCHANGED <<tvars, avars, wvars, cvars>>

FInit == MediaIdle /\ StoreIdle /\ CountsIdle

FNext ==
    \/ \E page \in 0..MaxPage : FetchVideos(page)
    \/ \E type \in FeedTypes : SetFeedType(type)
    \/ \E i \in 1..Len(fcalls) : FetchResolved(i)
    \/ \E i \in 1..Len(fcalls) : FetchRejected(i)

SpecFeed == FInit /\ [][FNext]_vars

\* ------------------------------------------------------------ uploadVideo
MaxUploads == 2

\* the awaited steps of uploadVideo, in the order of the code
UploadSteps == <<"getUser", "upload", "thumbnail", "thumbUpload", "insert">>

\* a call of uploadVideo: pc is the step it awaits ("returned", "thrown" at its
\* end), steps the steps it has issued, failedAt the step that failed,
\* inserted whether insertVideoRecord stored its record
NewUpload ==
    [pc |-> "getUser", steps |-> <<"getUser">>, failedAt |-> "none", inserted |-> FALSE]

\* line 223 and the call of supabase.auth.getUser() on line 226
UploadVideo ==
    /\ Len(ucalls) < MaxUploads
    /\ isUploading' = TRUE
    /\ uploadProgress' = 0
    /\ uploadError' = "none"
    /\ ucalls' = Append(ucalls, NewUpload)
    /\ UNCHANGED <<videos, feedType, hasMore, loading, error, fcalls, switches, stale>>
    /\ UNCHANGED <<tvars, avars, wvars, cvars>>

\* the awaited step of call i succeeded and the next step is issued
Proceed(i, next) ==
    ucalls' = [ucalls EXCEPT ![i].pc = next, ![i].steps = Append(@, next)]

\* lines 284-291: catch (error) { set({ isUploading: false, uploadError });
\* throw error }
UploadCatch(i, message) ==
    /\ isUploading' = FALSE
    /\ uploadError' = message
    /\ ucalls' = [ucalls EXCEPT ![i].pc = "thrown", ![i].failedAt = ucalls[i].pc]
    /\ UNCHANGED uploadProgress

\* lines 226-238: getUser answers; without a user the call throws
UGetUser(i) ==
    /\ ucalls[i].pc = "getUser"
    /\ \/ /\ Proceed(i, "upload")
          /\ UNCHANGED <<uploadProgress, isUploading, uploadError>>
       \/ UploadCatch(i, "No hay usuario autenticado")
    /\ UNCHANGED <<videos, feedType, hasMore, loading, error, fcalls, switches, stale>>
    /\ UNCHANGED <<tvars, avars, wvars, cvars>>

\* lines 233-251: the upload of the video answers; then generateThumbnail(file)
UVideoUploaded(i) ==
    /\ ucalls[i].pc = "upload"
    /\ \/ /\ Proceed(i, "thumbnail")
          /\ uploadProgress' = 50
          /\ UNCHANGED <<isUploading, uploadError>>
       \/ UploadCatch(i, "upload")
    /\ UNCHANGED <<videos, feedType, hasMore, loading, error, fcalls, switches, stale>>
    /\ UNCHANGED <<tvars, avars, wvars, cvars>>

\* lines 251-260: generateThumbnail settles; then the upload of the thumbnail
UThumbnail(i) ==
    /\ ucalls[i].pc = "thumbnail"
    /\ \/ /\ Proceed(i, "thumbUpload")
          /\ UNCHANGED <<uploadProgress, isUploading, uploadError>>
       \/ UploadCatch(i, "thumbnail")
    /\ UNCHANGED <<videos, feedType, hasMore, loading, error, fcalls, switches, stale>>
    /\ UNCHANGED <<tvars, avars, wvars, cvars>>

UThumbnailUploadedIgnoresError(i) ==
    /\ ucalls[i].pc = "thumbUpload"
    /\ \/ /\ Proceed(i, "insert")
          /\ uploadProgress' = 75
          /\ UNCHANGED <<isUploading, uploadError>>
       \/ /\ ucalls' = [ucalls EXCEPT ![i].pc = "insert",
                                      ![i].steps = Append(@, "insert"),
                                      ![i].failedAt = "thumbUpload"]
          /\ uploadProgress' = 75
          /\ UNCHANGED <<isUploading, uploadError>>
    /\ UNCHANGED <<videos, feedType, hasMore, loading, error, fcalls, switches, stale>>
    /\ UNCHANGED <<tvars, avars, wvars, cvars>>

\* lines 255-280: the upload of the thumbnail answers; then insertVideoRecord
UThumbnailUploaded(i) ==
    /\ ucalls[i].pc = "thumbUpload"
    /\ \/ /\ Proceed(i, "insert")
          /\ uploadProgress' = 75
          /\ UNCHANGED <<isUploading, uploadError>>
       \/ UploadCatch(i, "thumbUpload")
    /\ UNCHANGED <<videos, feedType, hasMore, loading, error, fcalls, switches, stale>>
    /\ UNCHANGED <<tvars, avars, wvars, cvars>>

\* lines 272-284: insertVideoRecord returns the record or throws
UInserted(i) ==
    /\ ucalls[i].pc = "insert"
    /\ \/ /\ ucalls' = [ucalls EXCEPT ![i].pc = "returned", ![i].inserted = TRUE]
          /\ uploadProgress' = 100
          /\ isUploading' = FALSE
          /\ UNCHANGED uploadError
       \/ UploadCatch(i, "insert")
    /\ UNCHANGED <<videos, feedType, hasMore, loading, error, fcalls, switches, stale>>
    /\ UNCHANGED <<tvars, avars, wvars, cvars>>

UInit == MediaIdle /\ StoreIdle /\ CountsIdle

UNext ==
    \/ UploadVideo
    \/ \E i \in 1..Len(ucalls) : UGetUser(i)
    \/ \E i \in 1..Len(ucalls) : UVideoUploaded(i)
    \/ \E i \in 1..Len(ucalls) : UThumbnail(i)
    \/ \E i \in 1..Len(ucalls) : UThumbnailUploaded(i)
    \/ \E i \in 1..Len(ucalls) : UInserted(i)

SpecUpload == UInit /\ [][UNext]_vars

\* ------------------------------------------------- the store with a feed
\* the store once the first page is listed: FetchVideos(0), FetchResolved(1)
FeedLoaded ==
    /\ videos = Range(0, PAGE_SIZE - 1)
    /\ feedType = "all"
    /\ hasMore = (Len(videos) = PAGE_SIZE)
    /\ loading = FALSE
    /\ error = "none"
    /\ fcalls = <<[page |-> 0, videos |-> <<>>, epoch |-> 0, st |-> "done"]>>
    /\ switches = 0
    /\ stale = FALSE
    /\ uploadProgress = 0
    /\ isUploading = FALSE
    /\ uploadError = "none"
    /\ ucalls = <<>>

\* state.videos has an entry with this id
Listed(v) == \E k \in 1..Len(videos) : videos[k] = v

\* the videos the user acts on: a listed one and one that is not listed
Targets == {1, RemoteVideos}

\* the entry of state.videos with this id, as an object
Entry(v) == [id |-> v, views_count |-> views_count[v], likes_count |-> likes_count[v]]

\* line 478: setCurrentVideo: (video) => set({ currentVideo: video }), called
\* with an entry of the list or with null
SetCurrentVideo ==
    /\ \E video \in {NoVideo} \cup {Entry(v) : v \in {t \in Targets : Listed(t)}} :
         /\ video # currentVideo
         /\ currentVideo' = video
    /\ UNCHANGED <<views_count, likes_count, viewRows, vcalls, likeRows, rowIds,
                   otherLikes, lcalls>>
    /\ UNCHANGED <<tvars, avars, wvars, svars>>

\* ------------------------------------------------------- marcarVideoVisto
MaxViews == 3

\* a call of marcarVideoVisto: pc is the request it awaits ("returned",
\* "thrown" at its end), res how it ended
NewView(videoId) == [video |-> videoId, pc |-> "getUser", res |-> "pending"]

\* marcarVideoVisto(videoId) is called; line 114 asks for the user
MarcarVideoVisto(videoId) ==
    /\ Len(vcalls) < MaxViews
    /\ vcalls' = Append(vcalls, NewView(videoId))
    /\ UNCHANGED <<currentVideo, views_count, likes_count, viewRows, likeRows,
                   rowIds, otherLikes, lcalls>>
    /\ UNCHANGED <<tvars, avars, wvars, svars>>

\* lines 114-123: getUser answers; without a user the call returns, with one
\* it asks for the user's row of the video
VGetUser(i) ==
    /\ vcalls[i].pc = "getUser"
    /\ \/ vcalls' = [vcalls EXCEPT ![i].pc = "select"]
       \/ vcalls' = [vcalls EXCEPT ![i].pc = "returned", ![i].res = "nouser"]
    /\ UNCHANGED <<currentVideo, views_count, likes_count, viewRows, likeRows,
                   rowIds, otherLikes, lcalls>>
    /\ UNCHANGED <<tvars, avars, wvars, svars>>

\* lines 118-138: the select answers; its error is not read, so a failed
\* select leaves existingView null as a missing row does; then the insert
VSelected(i) ==
    /\ vcalls[i].pc = "select"
    /\ \E existingView \in {vcalls[i].video \in viewRows, FALSE} :
         IF existingView
         THEN vcalls' = [vcalls EXCEPT ![i].pc = "returned", ![i].res = "existing"]
         ELSE vcalls' = [vcalls EXCEPT ![i].pc = "insert"]
    /\ UNCHANGED <<currentVideo, views_count, likes_count, viewRows, likeRows,
                   rowIds, otherLikes, lcalls>>
    /\ UNCHANGED <<tvars, avars, wvars, svars>>

\* lines 149-158: the functional set() that adds one view to the entries of
\* the video and to currentVideo when it is that video
IncrementViews(videoId) ==
    /\ views_count' = [views_count EXCEPT
                         ![videoId] = IF Listed(videoId) THEN @ + 1 ELSE @]
    /\ currentVideo' = IF currentVideo.id = videoId
                       THEN [currentVideo EXCEPT !.views_count = @ + 1]
                       ELSE currentVideo

VInsertAnsweredCountsDuplicate(i) ==
    /\ vcalls[i].pc = "insert"
    /\ LET videoId == vcalls[i].video
       IN  \/ /\ videoId \in viewRows
              /\ vcalls' = [vcalls EXCEPT ![i].pc = "returned", ![i].res = "duplicate"]
              /\ IncrementViews(videoId)
              /\ UNCHANGED viewRows
           \/ /\ videoId \notin viewRows
              /\ viewRows' = viewRows \cup {videoId}
              /\ vcalls' = [vcalls EXCEPT ![i].pc = "returned", ![i].res = "inserted"]
              /\ IncrementViews(videoId)
           \/ /\ viewRows' \in {viewRows, viewRows \cup {videoId}}
              /\ vcalls' = [vcalls EXCEPT ![i].pc = "thrown", ![i].res = "error"]
              /\ UNCHANGED <<currentVideo, views_count>>
    /\ UNCHANGED <<likes_count, likeRows, rowIds, otherLikes, lcalls>>
    /\ UNCHANGED <<tvars, avars, wvars, svars>>

\* lines 131-162: the insert answers.  The table holds one row per user and
\* video, so an insert next to a row is refused with code 23505 and the call
\* returns; another error is thrown again by the catch block, whether or not
\* the row was stored; a stored row is counted locally
VInsertAnswered(i) ==
    /\ vcalls[i].pc = "insert"
    /\ LET videoId == vcalls[i].video
       IN  \/ /\ videoId \in viewRows
              /\ vcalls' = [vcalls EXCEPT ![i].pc = "returned", ![i].res = "duplicate"]
              /\ UNCHANGED <<currentVideo, views_count, viewRows>>
           \/ /\ videoId \notin viewRows
              /\ viewRows' = viewRows \cup {videoId}
              /\ vcalls' = [vcalls EXCEPT ![i].pc = "returned", ![i].res = "inserted"]
              /\ IncrementViews(videoId)
           \/ /\ viewRows' \in {viewRows, viewRows \cup {videoId}}
              /\ vcalls' = [vcalls EXCEPT ![i].pc = "thrown", ![i].res = "error"]
              /\ UNCHANGED <<currentVideo, views_count>>
    /\ UNCHANGED <<likes_count, likeRows, rowIds, otherLikes, lcalls>>
    /\ UNCHANGED <<tvars, avars, wvars, svars>>

\* the feed is listed; the user may have seen some of the videos before
VInit ==
    /\ MediaIdle
    /\ FeedLoaded
    /\ currentVideo = NoVideo
    /\ views_count = [v \in VideoIds |-> 0]
    /\ likes_count = [v \in VideoIds |-> 0]
    /\ viewRows \in SUBSET {1}
    /\ vcalls = <<>>
    /\ likeRows = [v \in VideoIds |-> 0]
    /\ rowIds = 0
    /\ otherLikes = [v \in VideoIds |-> {}]
    /\ lcalls = <<>>

VNext ==
    \/ SetCurrentVideo
    \/ \E videoId \in Targets : MarcarVideoVisto(videoId)
    \/ \E i \in 1..Len(vcalls) : VGetUser(i)
    \/ \E i \in 1..Len(vcalls) : VSelected(i)
    \/ \E i \in 1..Len(vcalls) : VInsertAnswered(i)

SpecViews == VInit /\ [][VNext]_vars

\* -------------------------------------------------------------- likeVideo
MaxLikes == 2

\* the other users who like and unlike the videos meanwhile
OtherUsers == {"other"}

\* a call has returned or thrown
Ended(call) == call.pc \in {"returned", "thrown"}

\* the user has a row of table likes for the video
Liked(videoId) == likeRows[videoId] # 0

\* select count from likes where content_id = videoId
LikesOf(videoId) == (IF Liked(videoId) THEN 1 ELSE 0) + Cardinality(otherLikes[videoId])

\* a call of likeVideo: pc is the request it awaits, existing the id of the
\* row its select found, wasLiked its local, res what it returned ("true",
\* "false") or "error", counted whether it passed the count query and count
\* what it read; ended are the calls that had ended when it was made, before
\* and after whether the user's row was there when it was made and when it
\* returned
NewLike(videoId) ==
    [video |-> videoId, pc |-> "getUser", existing |-> 0, wasLiked |-> FALSE,
     res |-> "pending", counted |-> FALSE, count |-> 0,
     ended |-> {k \in 1..Len(lcalls) : Ended(lcalls[k])},
     before |-> Liked(videoId), after |-> FALSE]

\* likeVideo(videoId) is called; line 365 asks for the user
LikeVideo(videoId) ==
    /\ Len(lcalls) < MaxLikes
    /\ lcalls' = Append(lcalls, NewLike(videoId))
    /\ UNCHANGED <<currentVideo, views_count, likes_count, viewRows, vcalls,
                   likeRows, rowIds, otherLikes>>
    /\ UNCHANGED <<tvars, avars, wvars, svars>>

\* lines 441-444: catch (error) { ...; throw error }
LikeThrows(i) ==
    lcalls' = [lcalls EXCEPT ![i].pc = "thrown", ![i].res = "error"]

\* lines 365-376: getUser answers; without a user the call throws, with one
\* it asks for the user's row of the video
LGetUser(i) ==
    /\ lcalls[i].pc = "getUser"
    /\ \/ lcalls' = [lcalls EXCEPT ![i].pc = "select"]
       \/ LikeThrows(i)
    /\ UNCHANGED <<currentVideo, views_count, likes_count, viewRows, vcalls,
                   likeRows, rowIds, otherLikes>>
    /\ UNCHANGED <<tvars, avars, wvars, svars>>

\* lines 369-401: the select answers; checkError is thrown, a row found is
\* deleted by its id, and without a row one is inserted
LSelected(i) ==
    /\ lcalls[i].pc = "select"
    /\ \/ LikeThrows(i)
       \/ LET existingLike == likeRows[lcalls[i].video]
          IN  lcalls' = [lcalls EXCEPT ![i].existing = existingLike,
                                       ![i].pc = IF existingLike # 0
                                                 THEN "delete" ELSE "insert"]
    /\ UNCHANGED <<currentVideo, views_count, likes_count, viewRows, vcalls,
                   likeRows, rowIds, otherLikes>>
    /\ UNCHANGED <<tvars, avars, wvars, svars>>

\* delete from likes where id = rowId
DeleteById(videoId, rowId) ==
    [likeRows EXCEPT ![videoId] = IF @ = rowId THEN 0 ELSE @]

\* lines 382-389, 411-416: the delete answers; deleteError is thrown, whether
\* or not the row was deleted; otherwise wasLiked = false and the count query
LDeleted(i) ==
    /\ lcalls[i].pc = "delete"
    /\ LET videoId == lcalls[i].video
           deleted == DeleteById(videoId, lcalls[i].existing)
       IN  \/ /\ likeRows' = deleted
              /\ lcalls' = [lcalls EXCEPT ![i].wasLiked = FALSE, ![i].pc = "count"]
           \/ /\ likeRows' \in {likeRows, deleted}
              /\ LikeThrows(i)
    /\ UNCHANGED <<currentVideo, views_count, likes_count, viewRows, vcalls,
                   rowIds, otherLikes>>
    /\ UNCHANGED <<tvars, avars, wvars, svars>>

\* lines 391-409, 411-416: the insert answers.  The table holds one like per
\* user and video: an insert next to a row is refused with code 23505 and the
\* call returns false; another error is thrown, whether or not the row was
\* stored; otherwise wasLiked = true and the count query
LInserted(i) ==
    /\ lcalls[i].pc = "insert"
    /\ LET videoId == lcalls[i].video
           stored == [likeRows EXCEPT ![videoId] = rowIds + 1]
       IN  \/ /\ Liked(videoId)
              /\ lcalls' = [lcalls EXCEPT ![i].pc = "returned", ![i].res = "false",
                                          ![i].after = TRUE]
              /\ UNCHANGED <<likeRows, rowIds>>
           \/ /\ ~Liked(videoId)
              /\ likeRows' = stored
              /\ rowIds' = rowIds + 1
              /\ lcalls' = [lcalls EXCEPT ![i].wasLiked = TRUE, ![i].pc = "count"]
           \/ /\ \/ UNCHANGED <<likeRows, rowIds>>
                 \/ /\ ~Liked(videoId)
                    /\ likeRows' = stored
                    /\ rowIds' = rowIds + 1
              /\ LikeThrows(i)
    /\ UNCHANGED <<currentVideo, views_count, likes_count, viewRows, vcalls,
                   otherLikes>>
    /\ UNCHANGED <<tvars, avars, wvars, svars>>

SetLikesCountListOnly(videoId, newLikesCount) ==
    /\ likes_count' = [likes_count EXCEPT
                         ![videoId] = IF Listed(videoId) THEN newLikesCount ELSE @]
    /\ currentVideo' = currentVideo

\* lines 423-438: the functional set() that writes newLikesCount || 0 to the
\* entries of the video and to currentVideo when it is that video
SetLikesCount(videoId, newLikesCount) ==
    /\ likes_count' = [likes_count EXCEPT
                         ![videoId] = IF Listed(videoId) THEN newLikesCount ELSE @]
    /\ currentVideo' = IF currentVideo.id = videoId
                       THEN [currentVideo EXCEPT !.likes_count = newLikesCount]
                       ELSE currentVideo

\* lines 411-440: the count query answers; countError is thrown, otherwise
\* the count is written to the local state and wasLiked is returned
LCounted(i) ==
    /\ lcalls[i].pc = "count"
    /\ LET videoId == lcalls[i].video
           newLikesCount == LikesOf(videoId)
       IN  \/ /\ SetLikesCount(videoId, newLikesCount)
              /\ lcalls' = [lcalls EXCEPT
                              ![i].pc = "returned",
                              ![i].res = IF lcalls[i].wasLiked THEN "true" ELSE "false",
                              ![i].counted = TRUE,
                              ![i].count = newLikesCount,
                              ![i].after = Liked(videoId)]
           \/ /\ LikeThrows(i)
              /\ UNCHANGED <<currentVideo, likes_count>>
    /\ UNCHANGED <<views_count, viewRows, vcalls, likeRows, rowIds, otherLikes>>
    /\ UNCHANGED <<tvars, avars, wvars, svars>>

\* another user likes the video or takes the like back
OtherUserLikes(videoId) ==
    /\ \E user \in OtherUsers :
         otherLikes' = [otherLikes EXCEPT
                          ![videoId] = IF user \in @ THEN @ \ {user} ELSE @ \cup {user}]
    /\ UNCHANGED <<currentVideo, views_count, likes_count, viewRows, vcalls,
                   likeRows, rowIds, lcalls>>
    /\ UNCHANGED <<tvars, avars, wvars, svars>>

\* the feed is listed; the user may have liked video 1 before, and the
\* listed counts are those of table likes
LInit ==
    /\ MediaIdle
    /\ FeedLoaded
    /\ currentVideo = NoVideo
    /\ views_count = [v \in VideoIds |-> 0]
    /\ viewRows = {}
    /\ vcalls = <<>>
    /\ rowIds \in {0, 1}
    /\ likeRows = [v \in VideoIds |-> IF v = 1 THEN rowIds ELSE 0]
    /\ otherLikes = [v \in VideoIds |-> {}]
    /\ likes_count = [v \in VideoIds |-> LikesOf(v)]
    /\ lcalls = <<>>

LNext ==
    \/ SetCurrentVideo
    \/ \E videoId \in Targets : LikeVideo(videoId)
    \/ \E i \in 1..Len(lcalls) : LGetUser(i)
    \/ \E i \in 1..Len(lcalls) : LSelected(i)
    \/ \E i \in 1..Len(lcalls) : LDeleted(i)
    \/ \E i \in 1..Len(lcalls) : LInserted(i)
    \/ \E i \in 1..Len(lcalls) : LCounted(i)
    \/ \E videoId \in Targets : OtherUserLikes(videoId)

SpecLikes == LInit /\ [][LNext]_vars

\* ------------------------------------------------------------ properties

\* C1: never more than 3 rasterization attempts; a call of tryCapture made once
\* 3 attempts are counted leaves the promise settled and starts no 4th one.
C1_AtMostThreeAttempts ==
    /\ attempts <= MAX_ATTEMPTS
    /\ rasters <= MAX_ATTEMPTS
    /\ exhaustedCalls > 0 => (rasters = MAX_ATTEMPTS /\ outcome.st # "pending")

C1_Witness ==
    exhaustedCalls > 0 /\ rasters = MAX_ATTEMPTS /\ outcome.err = "Exhausted"

\* C2: the object URL and the video element are released at most once, and
\* exactly once when the executor has finished; a settled promise means the
\* executor is in or past its finally block.
C2_ReleasedExactlyOnce ==
    /\ revoked <= 1
    /\ removed <= 1
    /\ pc = "done" => (revoked = 1 /\ removed = 1)
    /\ outcome.st # "pending" => pc \in {"finally", "done"}

C2_Witness ==
    outcome.st = "resolved" /\ pc = "done" /\ revoked = 1 /\ removed = 1

\* C3 (as claimed): after the release no rasterization starts and no image
\* encoding is pending.
C3_ReleasedOnlyAtEnd ==
    (revoked > 0 \/ removed > 0) =>
        (~lateRaster /\ \A a \in Attempt : encode[a].st # "pending")

\* C4: a wait that is still pending keeps its timer armed and has lasted at
\* most 60 units; the timer ends it exactly at 60 and the promise is then
\* rejected with the timeout error; once loadeddata ended the wait the timer
\* is cancelled and the promise is never rejected with the timeout error.
C4_TimeoutOnlyOnInitialWait ==
    /\ waitRes = "pending" => (loadTimer >= 0 /\ waited + loadTimer = LOAD_TIMEOUT)
    /\ waitRes = "timeout" => waited = LOAD_TIMEOUT
    /\ (waitRes = "timeout" /\ pc \in {"finally", "done"}) =>
           (outcome.st = "rejected" /\ outcome.err = "Timeout")
    /\ waitRes = "loaded" => (loadTimer = NoTimer /\ outcome.err # "Timeout")
    /\ outcome.err = "Timeout" => waitRes = "timeout"

C4_Witness ==
    outcome.err = "Timeout" /\ waited = LOAD_TIMEOUT /\ pc = "done" /\ ~loadedDelivered

\* C5 (as claimed): when all 3 rasterization attempts have thrown, the promise
\* is rejected with the capture-exhausted error.
C5_AllThrowGivesExhausted ==
    thrown = MAX_ATTEMPTS => (outcome.st = "rejected" /\ outcome.err = "Exhausted")

\* C6: the promise settles at most once: once settled its value never changes,
\* so an image encoded by an earlier attempt is not delivered after a rejection.
C6_SettlesOnce ==
    [][outcome.st # "pending" => outcome' = outcome]_vars

C6_Witness ==
    lateBlob /\ outcome.st = "rejected" /\ outcome.err = "Exhausted"

\* C7 (as claimed): a capture that yields no image because the surface has a
\* zero dimension does not reject the promise while fewer than 3 attempts
\* have been made.
C7_ZeroDimEligibleForRetry ==
    ~(/\ outcome.st = "rejected"
      /\ outcome.err = "BlobNull"
      /\ (outcome.w = 0 \/ outcome.h = 0)
      /\ outcome.at < MAX_ATTEMPTS)

\* C8: an image the promise resolves with was encoded from a surface whose
\* width and height are the video's dimensions read at that capture attempt.
C8_ImageSizedAsVideo ==
    outcome.st = "resolved" =>
        (outcome.w = outcome.srcW /\ outcome.h = outcome.srcH)

C8_Witness ==
    /\ outcome.st = "resolved"
    /\ outcome.w # outcome.h
    /\ <<videoWidth, videoHeight>> # <<outcome.w, outcome.h>>

\* C9 (as claimed): when the fetch or the decoding of the secondary track
\* failed, the call is not rejected for it and the buffer passed to
\* audioBufferToWav is video[c][i] * clamp(videoVolume, 0, 1) everywhere.
C9_SecondaryFailureKeepsPrimary ==
    secondaryFailed =>
        /\ aresult.err \in {"none", "Serialize"}
        /\ handed # <<>> =>
             \A c \in 1..Len(videoBuf) : \A i \in 1..Len(videoBuf[c]) :
                 handed[c][i] = videoBuf[c][i] * Max(0, Min(VOne, videoVolume)) * 10

\* C10: with videoVolume = 0 and audioVolume = 0 every sample passed to
\* audioBufferToWav is zero and the restoration did not run, with or without
\* an audio track.
C10_SilenceAtZeroVolumes ==
    (videoVolume = 0 /\ audioVolume = 0 /\ handed # <<>>) =>
        /\ ~restored
        /\ Len(handed) = Len(videoBuf)
        /\ \A c \in 1..Len(handed) :
             /\ Len(handed[c]) = Len(videoBuf[c])
             /\ \A i \in 1..Len(handed[c]) : handed[c][i] = 0

C10_Witness ==
    /\ videoVolume = 0 /\ audioVolume = 0 /\ audioTrack
    /\ aphase = "Done"
    /\ Len(handed) = 2
    /\ \E c \in 1..Len(videoBuf) : \E i \in 1..Len(videoBuf[c]) : videoBuf[c][i] = One

\* C11: with videoVolume = 1, audioVolume = 0 and no audio track the buffer
\* passed to audioBufferToWav equals the decoded video buffer at every channel
\* and index, also when every sample is below the 0.001 threshold.
C11_IdentityAtFullVolume ==
    (videoVolume = VOne /\ audioVolume = 0 /\ ~audioTrack /\ handed # <<>>) =>
        /\ Len(handed) = Len(videoBuf)
        /\ \A c \in 1..Len(videoBuf) :
             /\ Len(handed[c]) = Len(videoBuf[c])
             /\ \A i \in 1..Len(videoBuf[c]) : handed[c][i] * One = videoBuf[c][i] * OutOne

C11_Witness ==
    /\ videoVolume = VOne /\ audioVolume = 0 /\ ~audioTrack
    /\ aphase = "Done"
    /\ restored
    /\ Len(videoBuf) = 2
    /\ handed = [c \in 1..2 |-> [i \in 1..Len(videoBuf[1]) |-> 2 * 10]]

\* C12: after the secondary pass every sample with index below audioLength is
\* clamp(primary + audio[c mod audioChannels][i] * clamp(audioVolume,0,1) * 0.8,
\* -1, 1): exactly 1 above 1, exactly -1 below -1, always within [-1, 1].
C12_SecondaryPassClips ==
    (aphase = "ValidatingMix" /\ audioBuf # <<>>) =>
        \A c \in 1..Len(outputBuffer) :
          \A i \in 1..Min(Len(audioBuf[1]), Len(videoBuf[1])) :
            LET weight == Max(0, Min(VOne, audioVolume)) * 8
                sum == primaryOut[c][i]
                         + audioBuf[((c - 1) % Len(audioBuf)) + 1][i] * weight
            IN  /\ sum > OutOne => outputBuffer[c][i] = OutOne
                /\ sum < -OutOne => outputBuffer[c][i] = -OutOne
                /\ (sum >= -OutOne /\ sum <= OutOne) => outputBuffer[c][i] = sum
                /\ outputBuffer[c][i] >= -OutOne
                /\ outputBuffer[c][i] <= OutOne

C12_Witness ==
    /\ aphase = "ValidatingMix" /\ audioBuf # <<>>
    /\ Len(videoBuf[1]) = 2 /\ Len(audioBuf[1]) >= 2
    /\ primaryOut[1][1] + audioBuf[1][1] * Max(0, Min(VOne, audioVolume)) * 8 > OutOne
    /\ outputBuffer[1][1] = OutOne
    /\ primaryOut[1][2] + audioBuf[1][2] * Max(0, Min(VOne, audioVolume)) * 8 < -OutOne
    /\ outputBuffer[1][2] = -OutOne

\* C13: when the video buffer has more channels than the secondary buffer the
\* secondary pass does not fail, and a mono track is mixed into every output
\* channel alike.
C13_MonoTrackOnEveryChannel ==
    (aphase = "ValidatingMix" /\ audioBuf # <<>> /\ Len(audioBuf) = 1) =>
        /\ ~secondaryFailed
        /\ \A c \in 1..Len(videoBuf) :
             \A i \in 1..Min(Len(audioBuf[1]), Len(videoBuf[1])) :
               LET sum == primaryOut[c][i]
                            + audioBuf[1][i] * Max(0, Min(VOne, audioVolume)) * 8
               IN  outputBuffer[c][i] = Max(-OutOne, Min(OutOne, sum))

C13_Witness ==
    /\ aphase = "ValidatingMix"
    /\ Len(videoBuf) = 2
    /\ Len(audioBuf) = 1
    /\ primaryOut[2][1] # outputBuffer[2][1]

\* C14: when the mix has no sample above 0.001 and videoVolume > 0, the buffer
\* passed on is video[c][i] * videoVolume everywhere, and the call is not
\* rejected for the silent mix.
C14_SilentMixRestored ==
    /\ restored =>
         /\ aresult.err \in {"none", "Serialize"}
         /\ \A c \in 1..Len(videoBuf) : \A i \in 1..Len(videoBuf[c]) :
                handed[c][i] = videoBuf[c][i] * videoVolume * 10
    /\ (/\ handed # <<>>
        /\ videoVolume > 0
        /\ \A c \in 1..Len(handed) : \A i \in 1..Len(handed[c]) :
               Abs(handed[c][i]) * 1000 <= OutOne) =>
         \A c \in 1..Len(videoBuf) : \A i \in 1..Len(videoBuf[c]) :
             handed[c][i] = videoBuf[c][i] * videoVolume * 10

C14_Witness ==
    /\ restored
    /\ aphase = "Done"
    /\ videoVolume = 1
    /\ secondaryFailed

\* C15: on every exit that is reached the audio context, if it was created,
\* is closed exactly once and the video element and its URL are released
\* exactly once; none of them is released twice.
C15_CompositorCleanupOnce ==
    /\ ctxClosed <= 1 /\ urlRevoked <= 1 /\ elemRemoved <= 1
    /\ ctxClosed = 1 => ctxCreated
    /\ aresult.st # "pending" => aphase \in {"Done", "Failed"}
    /\ aphase \in {"Done", "Failed"} =>
         /\ urlRevoked = 1
         /\ elemRemoved = 1
         /\ ctxClosed = IF ctxCreated THEN 1 ELSE 0

C15_Witness ==
    /\ aphase = "Failed"
    /\ aresult.err = "Serialize"
    /\ ctxClosed = 1 /\ urlRevoked = 1 /\ elemRemoved = 1

\* C16 (as claimed): every invocation eventually runs its cleanup phase, also
\* when the media element delivers neither its readiness notification nor an
\* error; stated here for processVideoAudio.
C16_CleanupEventuallyRuns ==
    <>(urlRevoked = 1 /\ elemRemoved = 1)

\* C17: a failed decode of the video's embedded audio rejects processVideoAudio
\* with that error and nothing is serialized or delegated; and whenever the
\* caller of either pipeline can see its result rejected (no synchronous code
\* of the pipeline is running), the cleanup phase has run.
C17_FatalErrorsRejectAfterCleanup ==
    /\ aresult.err = "Decode" =>
          /\ handed = <<>>
          /\ aphase \in {"Catch", "FinallyThrow", "Failed"}
    /\ aphase = "Failed" => aresult.st = "rejected"
    /\ aresult.st = "rejected" =>
          /\ aresult.err # "none"
          /\ urlRevoked = 1 /\ elemRemoved = 1
          /\ ctxCreated => ctxClosed = 1
    /\ (Idle /\ outcome.st = "rejected") => (revoked = 1 /\ removed = 1)

C17_Witness ==
    /\ aresult = [st |-> "rejected", err |-> "Decode"]
    /\ handed = <<>>
    /\ ctxClosed = 1 /\ urlRevoked = 1 /\ elemRemoved = 1

\* C18: for a buffer of C channels, N frames and rate R the result has
\* 44 + N*C*2 bytes; its header holds RIFF size 36 + N*C*2, fmt size 16,
\* format 1, C channels, rate R, byte rate R*C*2, block align C*2, bit depth 16
\* and data size N*C*2; the sample of channel i at frame p is stored at byte
\* offset 44 + p*C*2 + i*2.
C18_WavLayout ==
    wpc = "returned" =>
        LET C == Len(wavBuffer)
            N == Len(wavBuffer[1])
            R == wavRate
        IN  /\ Len(wavBytes) = 44 + N * C * 2
            /\ ReadUint32(wavBytes, 4) = 36 + N * C * 2
            /\ ReadUint32(wavBytes, 16) = 16
            /\ ReadUint16(wavBytes, 20) = 1
            /\ ReadUint16(wavBytes, 22) = C
            /\ ReadUint32(wavBytes, 24) = R
            /\ ReadUint32(wavBytes, 28) = R * C * 2
            /\ ReadUint16(wavBytes, 32) = C * 2
            /\ ReadUint16(wavBytes, 34) = 16
            /\ ReadUint32(wavBytes, 40) = N * C * 2
            /\ \A i \in 0..(C - 1) : \A p \in 0..(N - 1) :
                  ReadInt16(wavBytes, 44 + p * C * 2 + i * 2)
                      = Quantized(wavBuffer[i + 1][p + 1])

C18_Witness ==
    /\ wpc = "returned"
    /\ wavRate = 48000
    /\ wavBuffer = <<(<<0, WOne>>), (<<-WOne, 32769>>)>>
    /\ Len(wavBytes) = 52
    /\ SubSeq(wavBytes, 45, 52) = <<0, 0, 0, 128, 255, 127, 255, 63>>

\* C19 (as claimed): the value stored for a sample s is the 16-bit integer of
\* clamp(s,-1,1) scaled by 32768 when negative and by 32767 otherwise, it lies
\* in [-32768, 32767], and for s in [-1,1] decoding it (dividing by the same
\* scale) gives s with an error of at most 1/32768.
C19_QuantizationRoundTrip ==
    wpc = "returned" =>
        \A i \in 0..(Len(wavBuffer) - 1) : \A p \in 0..(Len(wavBuffer[1]) - 1) :
            LET s == wavBuffer[i + 1][p + 1]
                v == ReadInt16(wavBytes, 44 + p * Len(wavBuffer) * 2 + i * 2)
                d == Scaled(ClampSample(s)) - v * WOne
            IN  /\ v \in -32768..32767
                /\ Abs(d) < WOne
                /\ (s >= -WOne /\ s < 0) => Abs(d) <= WOne
                /\ (s >= 0 /\ s <= WOne) => Abs(d) * 32768 <= WOne * 32767

\* C20 (as claimed): a capture attempt never starts while an earlier attempt is
\* still in progress, that is while its image encoding has not called back or
\* its backoff timer has not fired, also when a seeked notification arrives.
C20_AttemptsSequential ==
    [][attempts' > attempts =>
          \A a \in 1..attempts :
              /\ encode[a].st # "pending"
              /\ backoff[a] = NoTimer \/ backoff'[a] = NoTimer]_vars

\* C21 (as claimed): every rasterization attempt, the first one included, happens
\* after a seeked notification has been delivered; none runs before the first.
C21_AttemptsOnlyAfterSeeked ==
    rasters > 0 => seeked > 0

\* the successions of positions of processVideoAudio on its way to return
PhaseOrder ==
    {<<"Init", "DecodingVideoMetadata">>,
     <<"DecodingVideoMetadata", "DecodingVideoAudio">>,
     <<"DecodingVideoAudio", "MixingPrimary">>,
     <<"MixingPrimary", "MixingSecondary:fetch">>,
     <<"MixingPrimary", "ValidatingMix">>,
     <<"MixingSecondary:fetch", "MixingSecondary:decode">>,
     <<"MixingSecondary:fetch", "ValidatingMix">>,
     <<"MixingSecondary:decode", "ValidatingMix">>,
     <<"ValidatingMix", "Serializing">>,
     <<"Serializing", "Delegating">>,
     <<"Delegating", "FinallyReturn">>,
     <<"FinallyReturn", "Done">>}

\* C22: the phases are visited only in the order Init, DecodingVideoMetadata,
\* DecodingVideoAudio, MixingPrimary, MixingSecondary (optional), ValidatingMix,
\* Serializing, Delegating, Done; the failure path is entered only with an
\* error recorded and never from the secondary track, whose failure leads on
\* to ValidatingMix.
C22_PhaseOrder ==
    [][aphase' # aphase =>
          /\ \/ <<aphase, aphase'>> \in PhaseOrder
             \/ /\ aphase' = "Catch"
                /\ aphase \notin {"MixingSecondary:fetch", "MixingSecondary:decode",
                                  "Catch", "FinallyThrow", "Failed", "Done"}
                /\ aresult'.err # "none"
             \/ aphase = "Catch" /\ aphase' = "FinallyThrow"
             \/ aphase = "FinallyThrow" /\ aphase' = "Failed"
          /\ (secondaryFailed' /\ ~secondaryFailed) => aphase' = "ValidatingMix"]_vars

C22_Witness ==
    aphase = "Done" /\ secondaryFailed /\ aresult.st = "resolved"

\* C23: while the fetch and the decode of the secondary track are awaited the
\* output holds the complete result of the primary pass, every sample of every
\* channel, and the secondary pass writes onto exactly that buffer.
C23_SecondaryAfterPrimary ==
    [][/\ aphase \in {"MixingSecondary:fetch", "MixingSecondary:decode"} =>
             outputBuffer = PrimaryPass(videoBuf, videoVolume)
       /\ audioBuf' # audioBuf =>
             outputBuffer' = SecondaryPass(PrimaryPass(videoBuf, videoVolume),
                                           videoBuf, audioBuf', audioVolume)]_vars

C23_Witness ==
    /\ aphase = "ValidatingMix"
    /\ audioBuf # <<>>
    /\ Len(videoBuf) = 2 /\ Len(videoBuf[1]) = 2
    /\ \A c \in 1..2 : \A i \in 1..2 :
          primaryOut[c][i] # 0 /\ outputBuffer[c][i] # primaryOut[c][i]

\* C24: without an audio track, or with audioVolume not above 0, no fetch and
\* no decode of a secondary resource is issued, and the mix that reaches the
\* validation is the result of the primary pass, sample for sample.
C24_NoSecondaryWithoutTrackOrVolume ==
    (~audioTrack \/ audioVolume <= 0) =>
        /\ fetches = 0
        /\ audioBuf = <<>>
        /\ ~secondaryFailed
        /\ aphase \notin {"MixingSecondary:fetch", "MixingSecondary:decode"}
        /\ aphase = "ValidatingMix" => outputBuffer = PrimaryPass(videoBuf, videoVolume)

C24_Witness ==
    /\ aphase = "ValidatingMix"
    /\ audioTrack /\ audioVolume <= 0
    /\ fetches = 0
    /\ outputBuffer = PrimaryPass(videoBuf, videoVolume)
    /\ \E c \in 1..Len(outputBuffer) : \E i \in 1..Len(outputBuffer[c]) :
          outputBuffer[c][i] # 0

\* C25: the output buffer has the channel count, the sample count and the
\* sample rate of the video buffer; audioLength = min(track length, video
\* length) never exceeds the track's sample count, and after the secondary
\* pass every sample at or beyond audioLength still has its primary-pass value.
C25_SecondaryWithinAudioLength ==
    /\ outputBuffer # <<>> =>
          /\ Len(outputBuffer) = Len(videoBuf)
          /\ \A c \in 1..Len(outputBuffer) : Len(outputBuffer[c]) = Len(videoBuf[1])
          /\ outputRate = videoRate /\ outputRate \in SampleRates
    /\ (audioBuf # <<>> /\ aphase = "ValidatingMix") =>
          LET audioLength == Min(Len(audioBuf[1]), Len(videoBuf[1]))
          IN  /\ audioLength <= Len(audioBuf[1])
              /\ \A c \in 1..Len(videoBuf) :
                    \A i \in (audioLength + 1)..Len(videoBuf[1]) :
                        outputBuffer[c][i] = PrimaryPass(videoBuf, videoVolume)[c][i]

C25_Witness ==
    /\ aphase = "ValidatingMix"
    /\ audioBuf # <<>>
    /\ Len(audioBuf[1]) = 1 /\ Len(videoBuf[1]) = 2
    /\ outputBuffer[1][1] # primaryOut[1][1]
    /\ outputBuffer[1][2] = primaryOut[1][2] /\ outputBuffer[1][2] # 0
    /\ outputRate = 48000

\* C26: with timers and callbacks scheduled fairly, every invocation of
\* generateThumbnail eventually settles: it resolves with an image or rejects.
C26_EventuallySettles ==
    <>(outcome.st # "pending")

C26_Witness ==
    /\ outcome.st = "rejected" /\ outcome.err = "BlobNull"
    /\ revoked = 1 /\ removed = 1

\* C27: the value processVideoAudio resolves with is the file made of the
\* input video's bytes and nothing else, whatever the audio track, the two
\* volumes, a failure of the secondary track or the silence restoration were;
\* two invocations on the same video so return the same result.
C27_ResultIsInputVideo ==
    /\ aresult.st = "resolved" => processedBlob = VideoFile
    /\ aresult.st # "resolved" => processedBlob \in {NoBlob, VideoFile}

C27_Witness ==
    /\ aresult.st = "resolved"
    /\ processedBlob = VideoFile
    /\ audioBuf # <<>> /\ handed # primaryOut
    /\ videoVolume = 1 /\ audioVolume = 2

\* C28 (as claimed): under every interleaving of the completions of fetchVideos
\* calls, the list never holds a snapshot captured before a feed switch that
\* a call for a page > 0 put back after the switch, nor one video id twice.
C28_NoStaleNoDuplicates ==
    /\ ~stale
    /\ \A j, k \in 1..Len(videos) : videos[j] = videos[k] => j = k

\* C29 (as claimed): whenever at least one uploadVideo call is in flight,
\* isUploading is true, also when uploads overlap and one of them ends first.
C29_UploadingWhileInFlight ==
    (\E i \in 1..Len(ucalls) : ucalls[i].pc \notin {"returned", "thrown"})
        => isUploading

\* C30: a call of uploadVideo issues its steps in the order of the code; a step
\* that fails ends the call in its catch block, which sets uploadError, sets
\* isUploading to false and rethrows, and no later step of the call is issued
\* nor is its record inserted.  While it is the only call, uploadProgress goes
\* through 0, 50, 75, 100 without decreasing and is 100 only once the record
\* was inserted.
C30_UploadStepsAndProgress ==
    [][/\ \A i \in 1..Len(ucalls') :
             LET c == ucalls'[i]
             IN  /\ Len(c.steps) <= Len(UploadSteps)
                 /\ \A k \in 1..Len(c.steps) : c.steps[k] = UploadSteps[k]
                 /\ c.failedAt # "none" =>
                       /\ c.pc = "thrown"
                       /\ c.failedAt = c.steps[Len(c.steps)]
                       /\ ~c.inserted
                 /\ (c.pc = "thrown" /\ ucalls[i].pc # "thrown") =>
                       (uploadError' # "none" /\ ~isUploading')
                 /\ (i <= Len(ucalls) /\ ucalls[i].pc = "thrown") => c = ucalls[i]
       /\ Len(ucalls') = 1 =>
             /\ uploadProgress' \in {0, 50, 75, 100}
             /\ Len(ucalls) = 1 => uploadProgress' >= uploadProgress
             /\ uploadProgress' = 100 => ucalls'[1].inserted
             /\ ucalls'[1].pc = "thrown" => (uploadError' # "none" /\ ~isUploading')
      ]_vars

C30_Witness ==
    /\ Len(ucalls) = 1
    /\ ucalls[1].pc = "thrown" /\ ucalls[1].failedAt = "thumbUpload"
    /\ ucalls[1].steps = <<"getUser", "upload", "thumbnail", "thumbUpload">>
    /\ uploadProgress = 50 /\ ~isUploading /\ uploadError = "thumbUpload"

\* C31: with one row of video_views per user and video, however the user's
\* calls of marcarVideoVisto for a video interleave, the video's local
\* views_count (in the list and in currentVideo) goes up at most once, by one,
\* and only in the step of a call whose insert stored the row
C31_ViewCountedOnceByInsert ==
    [][/\ \A v \in VideoIds : views_count'[v] <= 1
       /\ currentVideo'.views_count <= 1
       /\ \A v \in VideoIds :
            (\/ views_count'[v] # views_count[v]
             \/ (/\ currentVideo'.id = v
                 /\ currentVideo.id = v
                 /\ currentVideo'.views_count # currentVideo.views_count))
            => /\ views_count'[v] \in {views_count[v], views_count[v] + 1}
               /\ v \notin viewRows
               /\ v \in viewRows'
               /\ \E i \in 1..Len(vcalls) :
                    /\ vcalls[i].video = v
                    /\ vcalls[i].pc = "insert"
                    /\ vcalls'[i].res = "inserted"]_vars

\* two calls for the listed video 1 both found no row; one stored it and was
\* counted, in the list and in currentVideo, the other was refused
C31_Witness ==
    /\ \E i, j \in 1..Len(vcalls) :
         /\ vcalls[i].video = 1 /\ vcalls[i].res = "inserted"
         /\ vcalls[j].video = 1 /\ vcalls[j].res = "duplicate"
    /\ views_count[1] = 1
    /\ currentVideo.id = 1
    /\ currentVideo.views_count = 1

\* calls i and j of likeVideo are for the same video, j is the next call for
\* it after i, and i had ended when j was made
Consecutive(i, j) ==
    /\ i < j
    /\ lcalls[i].video = lcalls[j].video
    /\ \A k \in (i + 1)..(j - 1) : lcalls[k].video # lcalls[i].video
    /\ i \in lcalls[j].ended

\* call i of likeVideo overlaps no other call for its video
Alone(i) ==
    /\ \A k \in 1..(i - 1) :
         lcalls[k].video = lcalls[i].video => k \in lcalls[i].ended
    /\ \A k \in (i + 1)..Len(lcalls) :
         lcalls[k].video = lcalls[i].video => i \in lcalls[k].ended

\* two consecutive calls that overlap no call and returned gave true then
\* false or false then true, and the user's row is there after the second as
\* before the first
Toggles ==
    \A i, j \in 1..Len(lcalls) :
        (/\ Consecutive(i, j) /\ Alone(i) /\ Alone(j)
         /\ lcalls[i].pc = "returned" /\ lcalls[j].pc = "returned")
        => /\ {lcalls[i].res, lcalls[j].res} = {"true", "false"}
           /\ lcalls[j].after = lcalls[i].before

\* call i returns past the count query in this step: the video's likes_count
\* in the list and in currentVideo is the count of table likes, and no other
\* likes_count changes
WritesCount(i) ==
    LET videoId == lcalls[i].video
    IN  /\ Listed(videoId) => likes_count'[videoId] = LikesOf(videoId)
        /\ currentVideo.id = videoId => currentVideo'.likes_count = LikesOf(videoId)
        /\ currentVideo.id # videoId => currentVideo' = currentVideo
        /\ \A w \in VideoIds \ {videoId} : likes_count'[w] = likes_count[w]

====
